---- MODULE Spec2Model ----
(***************************************************************************)
(* Sponsor enrichment and job ranking of job-search-h1b.                   *)
(*                                                                         *)
(*   apps/api/src/lib/normalize.ts          normalizeCompanyName           *)
(*   apps/api/src/lib/landing-club.ts       remote sponsor provider client *)
(*   apps/api/src/services/visa-service.ts  resolver and enricher          *)
(*   unnamed/part_005 (job service)         searchJobs, applyScoring       *)
(*   unnamed/part_018 (seed script)         curated sponsor seeding        *)
(*                                                                         *)
(* Strings are sequences of one-character strings.  A nullable record is a *)
(* sequence of length at most one (<<>> is null); a nullable number is -1  *)
(* when null; a nullable text is the string "null" when null.              *)
(***************************************************************************)
EXTENDS Integers, Sequences, FiniteSets, TLC

VARIABLES
    now,          \* Date.now(), in hours
    configured,   \* Boolean(process.env.LANDING_CLUB_API_KEY)
    catalog,      \* what the remote sponsor provider knows
    sponsors,     \* the visa_sponsors table: a set of rows
    pc,           \* position of the request in flight
    op,           \* which entry point the request runs
    company,      \* resolver: companyName argument of the running resolution
    batch,        \* enricher: jobRows
    groups,       \* enricher: normalizedToJobs, the company groups in order
    snapshot,     \* enricher: existingSponsors, the rows read by the bulk fetch
    groupIdx,     \* enricher: index of the company group being processed
    remoteCallsRemaining, \* enricher: the per-request budget
    sponsorRecord,\* resolver: the row read first; enricher: the row of the group
    landingClub,  \* the candidate the remote lookup returned
    existing,     \* upsertSponsorFromLandingClub: the row read before the write
    summaries,    \* enricher: sponsorByJobId, by company group
    result,       \* what the finished request returned
    outcome,      \* "none", "returned" or "threw"
    remoteCalls,  \* HTTP requests sent to the provider by the request in flight
    skipped,      \* normalized names some request left out for want of budget
    searchEmbedding, \* searchJobs: where the query vector came from
    scoreIn,      \* applyScoring: the list given
    scoreOut,     \* applyScoring: the list returned
    filters,      \* the filters given to searchJobs and getTotalJobCount
    total,        \* getTotalJobCount: the count returned
    postings,     \* crawlers: the rows of the jobs table they wrote
    seenUrls,     \* GitHub crawler: the urls seen in the crawl under way
    retries,      \* fetchWithRetry: config.retries
    attempt,      \* fetchWithRetry: the loop counter
    fetchLog      \* fetchWithRetry: the answers of fetch and the sleeps, in order

vars == <<now, configured, catalog, sponsors, pc, op, company, batch, groups, snapshot,
          groupIdx, remoteCallsRemaining, sponsorRecord, landingClub, existing,
          summaries, result, outcome, remoteCalls, skipped,
          searchEmbedding,
          scoreIn, scoreOut, filters, total,
          postings, seenUrls, retries, attempt, fetchLog>>

-----------------------------------------------------------------------------
(* Bounds of the model *)

MaxTicks == 2       \* ticks of the clock
MaxList == 3        \* longest list handed to applyScoring on its own
MaxName == 4        \* longest name handed to normalizeCompanyName on its own

(* Program constants *)

REMOTE_SYNC_LIMIT_PER_REQUEST == 5
STALE_THRESHOLD_HOURS == 6
DefaultConfidence == 50

-----------------------------------------------------------------------------
(* Characters and strings *)

LowerAlnum == {"a", "b", "c", "d", "e", "f", "g", "1"}
Whitespace == {" "}

UpperCase == <<"A", "B", "C", "D", "E", "F", "G", "H", "I", "J", "K", "L", "M",
              "N", "O", "P", "Q", "R", "S", "T", "U", "V", "W", "X", "Y", "Z">>
LowerCase == <<"a", "b", "c", "d", "e", "f", "g", "h", "i", "j", "k", "l", "m",
              "n", "o", "p", "q", "r", "s", "t", "u", "v", "w", "x", "y", "z">>

\* String.prototype.toLowerCase, one character at a time.
toLowerCaseChar(ch) ==
    IF \E i \in 1..Len(UpperCase) : UpperCase[i] = ch
    THEN LowerCase[CHOOSE i \in 1..Len(UpperCase) : UpperCase[i] = ch]
    ELSE ch

toLowerCase(s) == [i \in 1..Len(s) |-> toLowerCaseChar(s[i])]

RECURSIVE trimStart(_)
trimStart(s) ==
    IF s = <<>> THEN <<>>
    ELSE IF Head(s) \in Whitespace THEN trimStart(Tail(s)) ELSE s

RECURSIVE trimEnd(_)
trimEnd(s) ==
    IF s = <<>> THEN <<>>
    ELSE IF s[Len(s)] \in Whitespace THEN trimEnd(SubSeq(s, 1, Len(s) - 1)) ELSE s

trim(s) == trimEnd(trimStart(s))

\* s.replace(/[^a-z0-9]+/g, ' '): every maximal run of other characters
\* becomes one space.
RECURSIVE replaceNonAlnumRuns(_)
replaceNonAlnumRuns(s) ==
    IF s = <<>> THEN <<>>
    ELSE IF Head(s) \in LowerAlnum THEN <<Head(s)>> \o replaceNonAlnumRuns(Tail(s))
    ELSE IF Len(s) > 1 /\ s[2] \notin LowerAlnum THEN replaceNonAlnumRuns(Tail(s))
    ELSE <<" ">> \o replaceNonAlnumRuns(Tail(s))

\* s.replace(/\s+/g, ' ')
RECURSIVE replaceSpaceRuns(_)
replaceSpaceRuns(s) ==
    IF s = <<>> THEN <<>>
    ELSE IF Head(s) \notin Whitespace THEN <<Head(s)>> \o replaceSpaceRuns(Tail(s))
    ELSE IF Len(s) > 1 /\ s[2] \in Whitespace THEN replaceSpaceRuns(Tail(s))
    ELSE <<" ">> \o replaceSpaceRuns(Tail(s))

\* normalizeCompanyName without its last trim().
normalizeWithoutLastTrim(name) ==
    replaceSpaceRuns(replaceNonAlnumRuns(toLowerCase(trim(name))))

normalizeCompanyName(name) ==
    trim(replaceSpaceRuns(replaceNonAlnumRuns(toLowerCase(trim(name)))))

\* The seed script's own normalizer: no collapse of spaces, no final trim.
seedNormalizeCompanyName(name) ==
    replaceNonAlnumRuns(toLowerCase(trim(name)))

\* The multi-platform crawler's own normalizer, the same text as the seed's.
crawlerNormalizeCompanyName(name) ==
    replaceNonAlnumRuns(toLowerCase(trim(name)))

-----------------------------------------------------------------------------
(* Company names used as inputs *)

NameA      == <<"a">>
NameAcomma == <<"A", ",">>                 \* "A,"   normalizes to "a"
NameB      == <<"b">>
NameC      == <<"c">>
NameD      == <<"d">>
NameE      == <<"e">>
NameF      == <<" ", "B", ",", " ", "f">>  \* " B, f" normalizes to "b f"
NameG      == <<"g">>                      \* a curated alias of "a"
NameJunk   == <<",", " ">>                 \* normalizes to ""
NameEmpty  == <<>>

ResolverNames == {NameAcomma, NameG, NameJunk}

-----------------------------------------------------------------------------
(* The visa_sponsors table *)

NullRow == <<>>
Some(r) == <<r>>
NullInt == -1
NullText == "null"

Coalesce(a, b) == IF a # NullInt THEN a ELSE b        \* a ?? b on numbers
CoalesceText(a, b) == IF a # NullText THEN a ELSE b   \* a ?? b on texts

Range(s) == {s[i] : i \in 1..Len(s)}

NoMetadata == [present |-> FALSE, landingClub |-> <<>>,
               landingClubSyncedAt |-> NullInt, curated |-> NullText]

\* uuid('id').defaultRandom(): a fresh identity for every inserted row.
NewId(tbl, normalized) ==
    <<normalized, Cardinality({r \in tbl : r.normalizedName = normalized})>>

\* insert(...).values(v).onConflictDoUpdate({target: normalizedName, set}):
\* `set` is v restricted to `cols`; the row that conflicts keeps its id and
\* the columns outside `cols`.
UpsertAlwaysInserts(tbl, v, cols) ==
    tbl \cup {[v EXCEPT !.id = NewId(tbl, v.normalizedName)]}

Upsert(tbl, v, cols) ==
    IF \E r \in tbl : r.normalizedName = v.normalizedName
    THEN LET old == CHOOSE r \in tbl : r.normalizedName = v.normalizedName
             new == [f \in DOMAIN old |-> IF f \in cols THEN v[f] ELSE old[f]]
         IN  (tbl \ {old}) \cup {new}
    ELSE tbl \cup {[v EXCEPT !.id = NewId(tbl, v.normalizedName)]}

\* The row `.returning()` hands back after the upsert of v.
Returned(tbl, v) ==
    LET hit == {r \in tbl : r.normalizedName = v.normalizedName}
    IN  IF hit = {} THEN NullRow ELSE Some(CHOOSE r \in hit : TRUE)

\* findSponsorByNormalizedName: the rows the two `limit(1)` queries may
\* return (no ORDER BY: any matching row).
findSponsorByNormalizedName(tbl, normalizedName) ==
    LET direct == {r \in tbl : r.normalizedName = normalizedName}
        alias  == {r \in tbl : normalizedName \in Range(r.aliases)}
    IN  IF direct # {} THEN {Some(r) : r \in direct}
        ELSE IF alias # {} THEN {Some(r) : r \in alias}
        ELSE {NullRow}

extractMetadata(record) ==
    IF record = NullRow \/ ~record[1].metadata.present THEN NoMetadata
    ELSE record[1].metadata

isSponsorStaleStrict(record, time) ==
    IF record = NullRow THEN TRUE
    ELSE LET synced == extractMetadata(record).landingClubSyncedAt
         IN  IF synced = NullInt THEN TRUE
             ELSE time - synced >= STALE_THRESHOLD_HOURS

isSponsorStale(record, time) ==
    IF record = NullRow THEN TRUE
    ELSE LET synced == extractMetadata(record).landingClubSyncedAt
         IN  IF synced = NullInt THEN TRUE
             ELSE time - synced > STALE_THRESHOLD_HOURS

\* mergeStringArrays: the entries of the lists in order, duplicates dropped.
RECURSIVE Dedup(_, _)
Dedup(s, seen) ==
    IF s = <<>> THEN <<>>
    ELSE IF Head(s) \in seen THEN Dedup(Tail(s), seen)
    ELSE <<Head(s)>> \o Dedup(Tail(s), seen \cup {Head(s)})

NullList == <<NullText>>      \* a list column that is null, or an absent list

\* Non-arrays are skipped, and so are empty entries.
mergeStringArrays(a, b) ==
    Dedup((IF a = NullList THEN <<>> ELSE a) \o (IF b = NullList THEN <<>> ELSE b),
          {""})

-----------------------------------------------------------------------------
(* The remote sponsor provider (Landing Club) *)

Candidate(id, name, visaTypes, confidence, lastYear, summary) ==
    [id |-> id, name |-> name, visaTypes |-> visaTypes,
     sponsorshipConfidence |-> confidence, lastYearSponsored |-> lastYear,
     latestUpdate |-> summary]

\* searchLandingClubSponsors on a provider that knows some companies of the
\* job table: the mapped candidates, best-ranked first.
FullCatalog(query) ==
    IF query = <<"a">> THEN
        << Candidate("lc-ag", <<"a", " ", "g">>, NullList, 40, NullInt, NullText),
           Candidate("lc-a", <<"A">>, <<"H1B", "OPT">>, 85, 2024, "filed 12 LCAs") >>
    ELSE IF query = <<"b", " ", "f">> THEN
        << Candidate("lc-b1", <<"b", "1">>, NullList, NullInt, NullInt, NullText) >>
    ELSE IF query \in {<<"b">>, <<"g">>} THEN
        << Candidate("lc", query, <<"H1B">>, 70, 2024, NullText) >>
    ELSE <<>>

\* A provider that knows none of them.
EmptyCatalog(query) == <<>>

Catalogs == {"full", "empty"}

searchLandingClubSponsors(cat, query) ==
    IF cat = "full" THEN FullCatalog(query) ELSE EmptyCatalog(query)

\* getLandingClubSponsor once the search has answered: the first exact
\* normalized-name match, else the top candidate, else null.
PickCandidate(results, normalizedQuery) ==
    IF results = <<>> THEN <<>>
    ELSE LET exact == {i \in 1..Len(results) :
                          normalizeCompanyName(results[i].name) = normalizedQuery}
         IN  IF exact # {}
             THEN <<results[CHOOSE i \in exact : \A j \in exact : i <= j]>>
             ELSE <<results[1]>>

-----------------------------------------------------------------------------
(* The curated sponsors file of the seed script *)

Curated ==
    << [companyName |-> <<"A">>, aliases |-> <<NameG>>,
        sponsorshipTypes |-> <<"h1b">>, lastYearSponsored |-> 2023,
        sponsorshipConfidence |-> 90, notes |-> "curated", source |-> "curated",
        metadata |-> [present |-> TRUE, landingClub |-> <<>>,
                      landingClubSyncedAt |-> NullInt, curated |-> "reviewed"],
        given |-> {"lastYearSponsored", "notes", "source", "metadata"}],
       [companyName |-> <<"b", ",">>, aliases |-> <<>>,
        sponsorshipTypes |-> <<>>, lastYearSponsored |-> NullInt,
        sponsorshipConfidence |-> NullInt, notes |-> NullText, source |-> NullText,
        metadata |-> NoMetadata,
        given |-> {}] >>

toUpperCase(type) == IF type = "h1b" THEN "H1B" ELSE type

\* The values of seed()'s insert; an optional field the file leaves out is
\* undefined: null on insert, left alone on update.
SeedValues(sponsor) ==
    [id |-> <<>>,
     companyName |-> sponsor.companyName,
     normalizedName |-> seedNormalizeCompanyName(sponsor.companyName),
     aliases |-> [i \in 1..Len(sponsor.aliases) |->
                     seedNormalizeCompanyName(sponsor.aliases[i])],
     sponsorshipTypes |-> [i \in 1..Len(sponsor.sponsorshipTypes) |->
                              toUpperCase(sponsor.sponsorshipTypes[i])],
     lastYearSponsored |-> sponsor.lastYearSponsored,
     sponsorshipConfidence |-> Coalesce(sponsor.sponsorshipConfidence, DefaultConfidence),
     notes |-> sponsor.notes,
     source |-> sponsor.source,
     metadata |-> sponsor.metadata]

SeedSetColumns(sponsor) ==
    {"companyName", "aliases", "sponsorshipTypes", "sponsorshipConfidence"}
        \cup sponsor.given

-----------------------------------------------------------------------------
(* upsertSponsorFromLandingClub: the merged values *)

MergedValues(companyName, lc, existingRow, time) ==
    LET old == IF existingRow = NullRow THEN
                   [aliases |-> <<>>, sponsorshipTypes |-> NullList,
                    lastYearSponsored |-> NullInt, sponsorshipConfidence |-> NullInt,
                    notes |-> NullText]
               ELSE existingRow[1]
        existingMetadata == extractMetadata(existingRow)
        merged == mergeStringArrays(lc.visaTypes, old.sponsorshipTypes)
    IN  [id |-> <<>>,
         companyName |-> lc.name,
         normalizedName |-> normalizeCompanyName(companyName),
         aliases |-> old.aliases,
         sponsorshipTypes |-> IF Len(merged) > 0 THEN merged ELSE NullList,
         lastYearSponsored |-> Coalesce(lc.lastYearSponsored, old.lastYearSponsored),
         sponsorshipConfidence |->
             Coalesce(lc.sponsorshipConfidence,
                      Coalesce(old.sponsorshipConfidence, DefaultConfidence)),
         notes |-> CoalesceText(lc.latestUpdate, old.notes),
         source |-> "landing_club",
         metadata |-> [present |-> TRUE, landingClub |-> <<lc>>,
                       landingClubSyncedAt |-> time,
                       curated |-> existingMetadata.curated]]

ResolverSetColumns ==
    {"companyName", "aliases", "sponsorshipTypes", "lastYearSponsored",
     "sponsorshipConfidence", "notes", "source", "metadata"}

-----------------------------------------------------------------------------
(* buildSponsorSummary *)

NullSummary == <<>>

buildSponsorSummary(record, lcArg) ==
    IF record = NullRow /\ lcArg = <<>> THEN NullSummary
    ELSE LET metadata == extractMetadata(record)
             lc == IF lcArg # <<>> THEN lcArg ELSE metadata.landingClub
             hasRec == record # NullRow
             hasLc == lc # <<>>
         IN  << [companyName |->
                    IF hasRec THEN record[1].companyName
                    ELSE IF hasLc THEN lc[1].name ELSE <<>>,
                 sponsorshipConfidence |->
                    Coalesce(IF hasRec THEN record[1].sponsorshipConfidence ELSE NullInt,
                             IF hasLc THEN lc[1].sponsorshipConfidence ELSE NullInt),
                 lastYearSponsored |->
                    Coalesce(IF hasRec THEN record[1].lastYearSponsored ELSE NullInt,
                             IF hasLc THEN lc[1].lastYearSponsored ELSE NullInt),
                 visaTypes |->
                    IF hasRec /\ record[1].sponsorshipTypes # NullList
                    THEN record[1].sponsorshipTypes
                    ELSE IF hasLc THEN lc[1].visaTypes ELSE NullList,
                 latestUpdate |-> IF hasLc THEN lc[1].latestUpdate ELSE NullText,
                 source |->
                    CoalesceText(IF hasRec THEN record[1].source ELSE NullText,
                                 IF hasLc THEN "landing_club" ELSE NullText)] >>

-----------------------------------------------------------------------------
(* The jobs and users tables.  Similarity is in 1/10000, scores in 1/1000, *)
(* times in hours.                                                         *)

Day == 24
StartTime == 100 * Day
\* One tick of the clock is the staleness threshold: a record is seen at the
\* ages 0, threshold (the boundary) and beyond.
ClockStep == STALE_THRESHOLD_HOURS
EndTime == StartTime + MaxTicks * ClockStep

Job(id, companyName, scrapedAt, postedAt, isActive, simText, simProfile, visaStatus, confidence) ==
    [id |-> id, company |-> companyName, scrapedAt |-> scrapedAt,
     postedAt |-> postedAt, isActive |-> isActive,
     simText |-> simText, simProfile |-> simProfile,
     similarity |-> <<>>,
     visaStatus |-> visaStatus, sponsorshipConfidence |-> confidence,
     hasVisaSponsor |-> FALSE, visaSponsor |-> NullSummary,
     jobType |-> "new_grad", isRemote |-> FALSE, location |-> <<"A", "b">>,
     visaSponsorId |-> NullText]

Jobs ==
    { [Job(1, NameAcomma, StartTime - 10, StartTime - 3 * Day, TRUE,
           <<9000>>, <<3000>>, "sponsor_verified", 90)
          EXCEPT !.visaSponsorId = "s1", !.isRemote = TRUE],
      [Job(2, NameB, StartTime - 20, StartTime - 7 * Day + 2, TRUE,
           <<9000>>, <<10001>>, "likely_sponsor", NullInt)
          EXCEPT !.jobType = "internship", !.location = <<"b", "a">>],
      [Job(3, NameC, StartTime - 20, NullInt, TRUE,
           <<-500>>, <<5000>>, "unknown", 45)
          EXCEPT !.jobType = NullText, !.location = <<>>],
      [Job(4, NameD, StartTime - 30, StartTime + Day, TRUE,
           <<>>, <<>>, NullText, 0)
          EXCEPT !.isRemote = TRUE, !.jobType = "internship"],
      Job(5, NameF, StartTime - 40, StartTime - 90 * Day, TRUE,
          <<7500>>, <<7500>>, "unknown", 60),
      Job(6, NameE, StartTime - 50, StartTime - Day, TRUE,
          <<5000>>, <<4990>>, NullText, NullInt),
      Job(7, NameA, StartTime - 60, StartTime - 20 * Day, TRUE,
          <<2000>>, <<8000>>, "unknown", 80),
      Job(8, NameJunk, StartTime - 5, StartTime - Day, TRUE,
          <<1000>>, <<1000>>, NullText, NullInt),
      Job(9, NameC, StartTime - 1, StartTime - Day, FALSE,
          <<9900>>, <<9900>>, "sponsor_verified", 95) }

JobById(id) == CHOOSE j \in Jobs : j.id = id

\* users.profileEmbedding: "u1" has one, "u2" has none, "u3" has no row.
UserIds == {"u1", "u2", "u3"}
HasProfileEmbedding(userId) == userId = "u1"

-----------------------------------------------------------------------------
(* Match Scorer *)

\* computeRecencyScore with < in the place of <=.
computeRecencyScoreStrict(postedAt, time) ==
    IF postedAt = NullInt THEN 0
    ELSE LET diff == time - postedAt
         IN  IF diff < 3 * Day THEN 10
             ELSE IF diff < 7 * Day THEN 8
             ELSE IF diff < 14 * Day THEN 6
             ELSE IF diff < 30 * Day THEN 4
             ELSE IF diff < 60 * Day THEN 2
             ELSE 0

\* computeRecencyScore, in tenths; diffInDays <= d is hours <= d * 24.
computeRecencyScore(postedAt, time) ==
    IF postedAt = NullInt THEN 0
    ELSE LET diff == time - postedAt
         IN  IF diff <= 3 * Day THEN 10
             ELSE IF diff <= 7 * Day THEN 8
             ELSE IF diff <= 14 * Day THEN 6
             ELSE IF diff <= 30 * Day THEN 4
             ELSE IF diff <= 60 * Day THEN 2
             ELSE 0

\* computeSponsorScore with the likely_sponsor test moved before the
\* confidence tests.
computeSponsorScoreStatusFirst(job) ==
    LET confidence ==
            Coalesce(IF job.visaSponsor # NullSummary
                     THEN job.visaSponsor[1].sponsorshipConfidence ELSE NullInt,
                     job.sponsorshipConfidence)
    IN  IF job.visaStatus = "sponsor_verified" THEN 10
        ELSE IF job.visaStatus = "likely_sponsor" THEN 5
        ELSE IF confidence # NullInt /\ confidence >= 80 THEN 9
        ELSE IF confidence # NullInt /\ confidence >= 60 THEN 6
        ELSE IF confidence # NullInt /\ confidence >= 40 THEN 3
        ELSE 0

\* computeSponsorScore, in tenths.
computeSponsorScore(job) ==
    LET confidence ==
            Coalesce(IF job.visaSponsor # NullSummary
                     THEN job.visaSponsor[1].sponsorshipConfidence ELSE NullInt,
                     job.sponsorshipConfidence)
    IN  IF job.visaStatus = "sponsor_verified" THEN 10
        ELSE IF confidence # NullInt /\ confidence >= 80 THEN 9
        ELSE IF confidence # NullInt /\ confidence >= 60 THEN 6
        ELSE IF job.visaStatus = "likely_sponsor" THEN 5
        ELSE IF confidence # NullInt /\ confidence >= 40 THEN 3
        ELSE 0

\* buildMatchReasons without its last three lines: no generic reason.
buildMatchReasonsNoFallback(job, scores) ==
    (IF scores.similarity >= 500 THEN <<"Good match to your stated interests">> ELSE <<>>)
        \o (IF scores.recency >= 600 THEN <<"Recently posted opportunity">> ELSE <<>>)
        \o (IF scores.sponsorship >= 600 THEN <<"Likely to sponsor work visas">> ELSE <<>>)

\* buildMatchReasons on scoreDetails (in 1/1000).
buildMatchReasons(job, scores) ==
    LET r1 == IF scores.similarity >= 750
              THEN <<"Strong alignment with your profile preferences">>
              ELSE IF scores.similarity >= 500
              THEN <<"Good match to your stated interests">>
              ELSE <<>>
        r2 == IF scores.recency >= 600 THEN <<"Recently posted opportunity">> ELSE <<>>
        r3 == IF scores.sponsorship >= 600
              THEN IF job.visaStatus = "sponsor_verified"
                      \/ (job.visaSponsor # NullSummary
                          /\ job.visaSponsor[1].sponsorshipConfidence \notin {NullInt, 0})
                   THEN <<"High confidence visa sponsorship">>
                   ELSE <<"Likely to sponsor work visas">>
              ELSE <<>>
        reasons == r1 \o r2 \o r3
    IN  IF reasons = <<>> THEN <<"Matches your filters">> ELSE reasons

Max(a, b) == IF a >= b THEN a ELSE b
Min(a, b) == IF a <= b THEN a ELSE b

\* Number(x.toFixed(3)) of x given in 1/100000: nearest 1/1000, halves up.
ToFixed3(x) == (x + 50) \div 100

\* The map callback without Math.max(0, Math.min(1, ...)).
ScoreJobUnclamped(job, time) ==
    LET similarityScore == IF job.similarity = <<>> THEN 0 ELSE job.similarity[1]
        recencyScore == computeRecencyScore(job.postedAt, time)
        sponsorshipScore == computeSponsorScore(job)
        matchScore == similarityScore * 6 + recencyScore * 2500 + sponsorshipScore * 1500
        scoreDetails == [similarity |-> ToFixed3(similarityScore * 10),
                         recency |-> recencyScore * 100,
                         sponsorship |-> sponsorshipScore * 100]
    IN  [job |-> job,
         matchScore |-> ToFixed3(matchScore),
         scoreDetails |-> scoreDetails,
         matchReasons |-> buildMatchReasons(job, scoreDetails)]

\* The map callback with the weights 0.5 / 0.25 / 0.25.
ScoreJobOtherWeights(job, time) ==
    LET similarityScore == IF job.similarity = <<>> THEN 0
                           ELSE Max(0, Min(10000, job.similarity[1]))
        recencyScore == computeRecencyScore(job.postedAt, time)
        sponsorshipScore == computeSponsorScore(job)
        matchScore == similarityScore * 5 + recencyScore * 2500 + sponsorshipScore * 2500
        scoreDetails == [similarity |-> ToFixed3(similarityScore * 10),
                         recency |-> recencyScore * 100,
                         sponsorship |-> sponsorshipScore * 100]
    IN  [job |-> job,
         matchScore |-> ToFixed3(matchScore),
         scoreDetails |-> scoreDetails,
         matchReasons |-> buildMatchReasons(job, scoreDetails)]

\* The map callback of applyScoring.
ScoreJob(job, time) ==
    LET similarityScore == IF job.similarity = <<>> THEN 0
                           ELSE Max(0, Min(10000, job.similarity[1]))
        recencyScore == computeRecencyScore(job.postedAt, time)
        sponsorshipScore == computeSponsorScore(job)
        matchScore == similarityScore * 6 + recencyScore * 2500 + sponsorshipScore * 1500
        scoreDetails == [similarity |-> ToFixed3(similarityScore * 10),
                         recency |-> recencyScore * 100,
                         sponsorship |-> sponsorshipScore * 100]
    IN  [job |-> job,
         matchScore |-> ToFixed3(matchScore),
         scoreDetails |-> scoreDetails,
         matchReasons |-> buildMatchReasons(job, scoreDetails)]

\* Array.prototype.sort with (a, b) => b.matchScore - a.matchScore: a stable
\* sort, so each element goes behind the elements that compare equal to it.
RECURSIVE InsertUnstable(_, _)
InsertUnstable(sorted, x) ==
    IF sorted = <<>> THEN <<x>>
    ELSE IF Head(sorted).matchScore > x.matchScore
         THEN <<Head(sorted)>> \o InsertUnstable(Tail(sorted), x)
         ELSE <<x>> \o sorted

RECURSIVE InsertSorted(_, _)
InsertSorted(sorted, x) ==
    IF sorted = <<>> THEN <<x>>
    ELSE IF Head(sorted).matchScore >= x.matchScore
         THEN <<Head(sorted)>> \o InsertSorted(Tail(sorted), x)
         ELSE <<x>> \o sorted

RECURSIVE SortByMatchScore(_)
SortByMatchScore(list) ==
    IF list = <<>> THEN <<>>
    ELSE InsertSorted(SortByMatchScore(SubSeq(list, 1, Len(list) - 1)), list[Len(list)])

applyScoring(results, time) ==
    SortByMatchScore([i \in 1..Len(results) |-> ScoreJob(results[i], time)])

-----------------------------------------------------------------------------
(* Queries on the jobs table *)

NullsFirst == 1000000

\* ORDER BY key DESC (nulls first); rows with equal keys come in either order
\* of their ids.
RECURSIVE OrderByDesc(_, _, _)
OrderByDesc(rows, byScraped, flip) ==
    IF rows = {} THEN <<>>
    ELSE LET key(j) == IF byScraped THEN j.scrapedAt
                       ELSE IF j.similarity = <<>> THEN NullsFirst
                       ELSE j.similarity[1]
             before(j, o) ==
                 \/ key(j) > key(o)
                 \/ key(j) = key(o) /\ (IF flip THEN j.id >= o.id ELSE j.id <= o.id)
             top == CHOOSE j \in rows : \A o \in rows : before(j, o)
         IN  <<top>> \o OrderByDesc(rows \ {top}, byScraped, flip)

\* limit(limit).offset(offset)
Page(list, limit, offset) ==
    SubSeq(list, offset + 1, Min(Len(list), offset + limit))

\* ilike(column, `%${text}%`): the text occurs in the column, letter case
\* ignored.  A null column matches nothing, and is held here as the empty
\* text, which matches nothing either.
Contains(s, sub) ==
    \E i \in 0..(Len(s) - Len(sub)) : SubSeq(s, i + 1, i + Len(sub)) = sub

ILikeContains(column, text) == Contains(toLowerCase(column), toLowerCase(text))

\* getTotalJobCount's where clause with the posted-date filters left out.
CountFiltersWithoutDates(job, params) ==
    /\ params.includeInactive \/ job.isActive
    /\ params.jobType \notin {NullText, "all"} => job.jobType = params.jobType
    /\ params.isRemote # "undefined" => job.isRemote = (params.isRemote = "true")
    /\ params.location # <<>> => ILikeContains(job.location, params.location)
    /\ params.visaStatus # NullText => job.visaStatus = params.visaStatus
    /\ params.requiresVerifiedSponsor =>
          job.visaStatus = "sponsor_verified" /\ job.visaSponsorId # NullText
    /\ params.minSponsorshipConfidence # NullInt =>
          /\ job.sponsorshipConfidence # NullInt
          /\ job.sponsorshipConfidence >= params.minSponsorshipConfidence

\* The where clause of getTotalJobCount: lines 326-364.
CountFilters(job, params) ==
    /\ params.includeInactive \/ job.isActive
    /\ params.jobType \notin {NullText, "all"} => job.jobType = params.jobType
    /\ params.isRemote # "undefined" => job.isRemote = (params.isRemote = "true")
    /\ params.location # <<>> => ILikeContains(job.location, params.location)
    /\ params.visaStatus # NullText => job.visaStatus = params.visaStatus
    /\ params.requiresVerifiedSponsor =>
          job.visaStatus = "sponsor_verified" /\ job.visaSponsorId # NullText
    /\ params.minSponsorshipConfidence # NullInt =>
          /\ job.sponsorshipConfidence # NullInt
          /\ job.sponsorshipConfidence >= params.minSponsorshipConfidence
    /\ params.postedAfter # NullInt =>
          job.postedAt # NullInt /\ job.postedAt >= params.postedAfter
    /\ params.postedBefore # NullInt =>
          job.postedAt # NullInt /\ job.postedAt <= params.postedBefore

\* select count(*) from jobs where ...
getTotalJobCount(params) == Cardinality({j \in Jobs : CountFilters(j, params)})

\* The where clause of searchJobs with the verified-sponsor conditions pushed
\* only when no visaStatus filter is given.
MatchesFiltersStatusOverrides(job, params) ==
    /\ params.includeInactive \/ job.isActive
    /\ params.jobType \notin {NullText, "all"} => job.jobType = params.jobType
    /\ params.isRemote # "undefined" => job.isRemote = (params.isRemote = "true")
    /\ params.location # <<>> => ILikeContains(job.location, params.location)
    /\ params.visaStatus # NullText => job.visaStatus = params.visaStatus
    /\ (params.requiresVerifiedSponsor /\ params.visaStatus = NullText) =>
          job.visaStatus = "sponsor_verified" /\ job.visaSponsorId # NullText
    /\ params.minSponsorshipConfidence # NullInt =>
          /\ job.sponsorshipConfidence # NullInt
          /\ job.sponsorshipConfidence >= params.minSponsorshipConfidence
    /\ params.postedAfter # NullInt =>
          job.postedAt # NullInt /\ job.postedAt >= params.postedAfter
    /\ params.postedBefore # NullInt =>
          job.postedAt # NullInt /\ job.postedAt <= params.postedBefore

\* The where clause of searchJobs: lines 165-204.
MatchesFilters(job, params) ==
    /\ params.includeInactive \/ job.isActive
    /\ params.jobType \notin {NullText, "all"} => job.jobType = params.jobType
    /\ params.isRemote # "undefined" => job.isRemote = (params.isRemote = "true")
    /\ params.location # <<>> => ILikeContains(job.location, params.location)
    /\ params.visaStatus # NullText => job.visaStatus = params.visaStatus
    /\ params.requiresVerifiedSponsor =>
          job.visaStatus = "sponsor_verified" /\ job.visaSponsorId # NullText
    /\ params.minSponsorshipConfidence # NullInt =>
          /\ job.sponsorshipConfidence # NullInt
          /\ job.sponsorshipConfidence >= params.minSponsorshipConfidence
    /\ params.postedAfter # NullInt =>
          job.postedAt # NullInt /\ job.postedAt >= params.postedAfter
    /\ params.postedBefore # NullInt =>
          job.postedAt # NullInt /\ job.postedAt <= params.postedBefore

DefaultLimit == 50

\* Requests that filter on is_active only.
SearchParams ==
    [description : BOOLEAN, userId : {"none", "u1", "u2"},
     includeInactive : BOOLEAN, limit : {3, DefaultLimit}, offset : {0},
     jobType : {NullText}, isRemote : {"undefined"}, location : {<<>>},
     visaStatus : {NullText}, requiresVerifiedSponsor : {FALSE},
     minSponsorshipConfidence : {NullInt},
     postedAfter : {NullInt}, postedBefore : {NullInt}]

\* Requests with every combination of filters, the whole result on one page.
FilterParams ==
    [description : {FALSE}, userId : {"none"},
     includeInactive : BOOLEAN, limit : {DefaultLimit}, offset : {0},
     jobType : {NullText, "all", "internship"},
     isRemote : {"undefined", "true", "false"},
     location : {<<>>, <<"a", "B">>},
     visaStatus : {NullText, "sponsor_verified", "unknown"},
     requiresVerifiedSponsor : BOOLEAN,
     minSponsorshipConfidence : {NullInt, 0, 60},
     postedAfter : {NullInt, StartTime - 7 * Day},
     postedBefore : {NullInt, StartTime - Day}]

NoFilters == CHOOSE p \in SearchParams : ~p.description /\ p.userId = "none"
                                         /\ ~p.includeInactive /\ p.limit = DefaultLimit

-----------------------------------------------------------------------------
(* enrichJobsWithSponsors: grouping *)

\* normalizedToJobs.keys(), in insertion order, each with the company name
\* of the first posting of the group.
RECURSIVE GroupsFrom(_, _)
GroupsFrom(rows, seen) ==
    IF rows = <<>> THEN <<>>
    ELSE LET name == Head(rows).company
             normalized == normalizeCompanyName(name)
         IN  IF name = <<>> \/ normalized = <<>> \/ normalized \in seen
             THEN GroupsFrom(Tail(rows), seen)
             ELSE <<[normalized |-> normalized, company |-> name]>>
                      \o GroupsFrom(Tail(rows), seen \cup {normalized})

Groups(rows) == GroupsFrom(rows, {})

\* The bulk fetch: inArray(visaSponsors.normalizedName, normalizedNames).
BulkFetch(tbl, grps) ==
    [i \in 1..Len(grps) |->
        LET hit == {r \in tbl : r.normalizedName = grps[i].normalized}
        IN  IF hit = {} THEN NullRow ELSE Some(CHOOSE r \in hit : TRUE)]

\* jobRows.map(job => ({...job, visaSponsor: sponsorByJobId.get(job.id) ?? null}))
Attach(rows, grps, sums) ==
    [k \in 1..Len(rows) |->
        LET normalized == normalizeCompanyName(rows[k].company)
            hit == {i \in 1..Len(grps) : grps[i].normalized = normalized}
        IN  [rows[k] EXCEPT !.hasVisaSponsor = TRUE,
                            !.visaSponsor =
                                IF rows[k].company = <<>> \/ hit = {} THEN NullSummary
                                ELSE sums[CHOOSE i \in hit : TRUE]]]

\* What the caller of enrichJobsWithSponsors does with the rows it returns.
Deliver(theOp, rows, time) ==
    IF theOp = "search" THEN applyScoring(rows, time) ELSE rows

-----------------------------------------------------------------------------
(* Initial state: an empty sponsors table, no request in flight *)

NoResult == <<>>

\* No crawler has run and no fetchWithRetry is under way.
NoCrawl ==
    /\ postings = {}
    /\ seenUrls = {}
    /\ retries = 0
    /\ attempt = 0
    /\ fetchLog = <<>>

Idle ==
    /\ pc = "idle"
    /\ op = "none"
    /\ company = <<>>
    /\ batch = <<>>
    /\ groups = <<>>
    /\ snapshot = <<>>
    /\ groupIdx = 0
    /\ remoteCallsRemaining = 0
    /\ sponsorRecord = NullRow
    /\ landingClub = <<>>
    /\ existing = NullRow
    /\ summaries = <<>>
    /\ result = NoResult
    /\ outcome = "none"
    /\ remoteCalls = 0
    /\ searchEmbedding = "none"

Init ==
    /\ now = StartTime
    /\ configured \in BOOLEAN
    /\ catalog \in Catalogs
    /\ sponsors = {}
    /\ skipped = {}
    /\ Idle
    /\ scoreIn = <<>>
    /\ scoreOut = <<>>
    /\ filters = NoFilters
    /\ total = NullInt
    /\ NoCrawl

env == <<now, configured, catalog>>
scoreVars == <<scoreIn, scoreOut>>
countVars == <<filters, total>>
crawlVars == <<postings, seenUrls, retries, attempt, fetchLog>>
request == <<pc, op, company, batch, groups, snapshot, groupIdx, remoteCallsRemaining,
             sponsorRecord, landingClub, existing, summaries, result, outcome,
             remoteCalls, searchEmbedding>>

\* The request returns `value` or throws: its locals go out of scope.
Finish(value, how) ==
    /\ pc' = "done"
    /\ outcome' = how
    /\ result' = value
    /\ groups' = <<>>
    /\ snapshot' = <<>>
    /\ groupIdx' = 0
    /\ landingClub' = <<>>
    /\ existing' = NullRow
    /\ summaries' = <<>>

-----------------------------------------------------------------------------
(* The clock, the seed script, and the caller taking a result *)

Tick ==
    /\ pc = "idle"
    /\ now + ClockStep <= EndTime
    /\ now' = now + ClockStep
    /\ UNCHANGED <<configured, catalog, sponsors, request, skipped, scoreVars, countVars, crawlVars>>

\* One iteration of seed()'s loop: a single insert ... on conflict do update.
SeedWrite(i) ==
    /\ sponsors' = Upsert(sponsors, SeedValues(Curated[i]), SeedSetColumns(Curated[i]))
    /\ UNCHANGED <<env, request, skipped, scoreVars, countVars, crawlVars>>

Reset ==
    /\ pc = "done"
    /\ pc' = "idle"
    /\ op' = "none"
    /\ company' = <<>>
    /\ batch' = <<>>
    /\ groups' = <<>>
    /\ snapshot' = <<>>
    /\ groupIdx' = 0
    /\ remoteCallsRemaining' = 0
    /\ sponsorRecord' = NullRow
    /\ landingClub' = <<>>
    /\ existing' = NullRow
    /\ summaries' = <<>>
    /\ result' = NoResult
    /\ outcome' = "none"
    /\ remoteCalls' = 0
    /\ searchEmbedding' = "none"
    /\ filters' = NoFilters
    /\ UNCHANGED <<env, sponsors, skipped, scoreVars, total, crawlVars>>

-----------------------------------------------------------------------------
(* getSponsorEnrichmentForCompany *)

Enrichment(record, lc) == [sponsor |-> record, landingClub |-> lc]

\* Lines 180-187 without the return of the local record.
ResolveFallbackDropsRecord(record) == Enrichment(NullRow, <<>>)

\* Lines 180-187: the return when upsertSponsorFromLandingClub gave null.
ResolveFallback(record) ==
    IF record # NullRow
    THEN Enrichment(record, extractMetadata(record).landingClub)
    ELSE Enrichment(NullRow, <<>>)

\* The call up to its first wait on the provider: the local read, the
\* staleness gate, and the start of upsertSponsorFromLandingClub.
ResolveStart(name) ==
    /\ pc = "idle"
    /\ \E record \in findSponsorByNormalizedName(sponsors, normalizeCompanyName(name)) :
        LET metadata == extractMetadata(record)
            returnsLocal ==
                \/ record # NullRow /\ ~isSponsorStale(record, now)
                \/ record # NullRow /\ metadata.landingClub # <<>> /\ ~configured
            sendsRequest == ~returnsLocal /\ configured /\ normalizeCompanyName(name) # <<>>
        IN  /\ sponsorRecord' = record
            /\ IF sendsRequest
               THEN /\ pc' = "http"
                    /\ remoteCalls' = 1
                    /\ skipped' = skipped \ {normalizeCompanyName(name)}
                    /\ UNCHANGED <<groups, snapshot, groupIdx, landingClub, existing,
                                   summaries, result, outcome>>
               ELSE /\ Finish(IF returnsLocal
                              THEN Enrichment(record, metadata.landingClub)
                              ELSE ResolveFallback(record), "returned")
                    /\ UNCHANGED <<remoteCalls, skipped>>
    /\ op' = "resolve"
    /\ company' = name
    /\ UNCHANGED <<env, sponsors, batch, remoteCallsRemaining, searchEmbedding, scoreVars, countVars, crawlVars>>

-----------------------------------------------------------------------------
(* enrichJobsWithSponsors *)

\* Lines 237-268: the early returns, the grouping and the bulk fetch.
BeginEnrich(theOp, rows) ==
    /\ op' = theOp
    /\ batch' = rows
    /\ IF Len(rows) = 0 \/ Groups(rows) = <<>>
       THEN /\ Finish(Deliver(theOp, rows, now), "returned")
            /\ UNCHANGED remoteCallsRemaining
       ELSE /\ pc' = "loop"
            /\ groups' = Groups(rows)
            /\ snapshot' = BulkFetch(sponsors, Groups(rows))
            /\ groupIdx' = 1
            /\ remoteCallsRemaining' = REMOTE_SYNC_LIMIT_PER_REQUEST
            /\ UNCHANGED <<landingClub, existing, summaries, result, outcome>>
    /\ UNCHANGED <<env, sponsors, company, sponsorRecord, remoteCalls, skipped, scoreVars, total, crawlVars>>

EnrichBatches ==
    { OrderByDesc(Jobs, TRUE, FALSE),
      OrderByDesc({j \in Jobs : j.company = NameJunk}, TRUE, FALSE),
      <<>> }

EnrichStart(rows) ==
    /\ pc = "idle"
    /\ UNCHANGED <<searchEmbedding, filters>>
    /\ BeginEnrich("enrich", rows)

\* The end of one iteration of the loop over the groups: lines 289-296.
FinishGroup(record, remaining) ==
    /\ pc' = "loop"
    /\ remoteCallsRemaining' = remaining
    /\ sponsorRecord' = record
    /\ summaries' = Append(summaries,
                           buildSponsorSummary(record, extractMetadata(record).landingClub))
    /\ groupIdx' = groupIdx + 1
    /\ UNCHANGED <<groups, snapshot, landingClub, existing, result, outcome>>

\* No budget check: the call goes out whenever the record is missing or stale.
NeedsRemoteUnbounded(record, time, isConfigured, remaining) ==
    isSponsorStale(record, time) /\ isConfigured

needsRemote(record, time, isConfigured, remaining) ==
    isSponsorStale(record, time) /\ isConfigured /\ remaining > 0

\* One pass of the loop up to its wait on the provider, or the final map
\* when the groups are exhausted.
EnrichLoop ==
    /\ pc = "loop"
    /\ IF groupIdx > Len(groups)
       THEN /\ Finish(Deliver(op, Attach(batch, groups, summaries), now), "returned")
            /\ UNCHANGED <<company, remoteCallsRemaining, sponsorRecord, remoteCalls,
                           skipped>>
       ELSE LET group == groups[groupIdx]
                record == snapshot[groupIdx]
            IN  IF needsRemote(record, now, configured, remoteCallsRemaining)
                THEN /\ pc' = "http"
                     /\ company' = group.company
                     /\ sponsorRecord' = record
                     /\ remoteCalls' = remoteCalls + 1
                     /\ skipped' = skipped \ {group.normalized}
                     /\ UNCHANGED <<groups, snapshot, groupIdx, remoteCallsRemaining,
                                    landingClub, existing, summaries, result, outcome>>
                ELSE /\ FinishGroup(record, remoteCallsRemaining)
                     /\ skipped' = IF isSponsorStale(record, now) /\ configured
                                   THEN skipped \cup {group.normalized} ELSE skipped
                     /\ UNCHANGED <<company, remoteCalls>>
    /\ UNCHANGED <<env, sponsors, op, batch, searchEmbedding, scoreVars, countVars, crawlVars>>

-----------------------------------------------------------------------------
(* upsertSponsorFromLandingClub, from the provider's answer on *)

\* The callers of upsertSponsorFromLandingClub, the resolver answering a null
\* sponsor whenever the sync gave nothing.
AfterSyncWithoutLocalRecord(synced, lc) ==
    IF op = "resolve"
    THEN /\ Finish(IF synced # NullRow THEN Enrichment(synced, lc)
                   ELSE Enrichment(NullRow, <<>>), "returned")
         /\ UNCHANGED <<remoteCallsRemaining, sponsorRecord>>
    ELSE FinishGroup(IF synced # NullRow THEN synced ELSE sponsorRecord,
                     remoteCallsRemaining - 1)

\* What the caller does with the value upsertSponsorFromLandingClub returns
\* (`synced` is the row of the returned enrichment, or null).
AfterSync(synced, lc) ==
    IF op = "resolve"
    THEN /\ Finish(IF synced # NullRow THEN Enrichment(synced, lc)
                   ELSE ResolveFallback(sponsorRecord), "returned")
         /\ UNCHANGED <<remoteCallsRemaining, sponsorRecord>>
    ELSE FinishGroup(IF synced # NullRow THEN synced ELSE sponsorRecord,
                     remoteCallsRemaining - 1)

\* The provider answers 2xx: landingClubRequest returns, the candidates are
\* mapped, getLandingClubSponsor picks one, and with a candidate in hand
\* upsertSponsorFromLandingClub reads the existing row (line 95).
RemoteOk ==
    /\ pc = "http"
    /\ LET normalizedQuery == normalizeCompanyName(company)
           lc == PickCandidate(searchLandingClubSponsors(catalog, normalizedQuery),
                               normalizedQuery)
       IN  IF lc = <<>>
           THEN AfterSync(NullRow, lc)
           ELSE /\ pc' = "upsertWrite"
                /\ landingClub' = lc
                /\ existing' \in findSponsorByNormalizedName(sponsors, normalizedQuery)
                /\ UNCHANGED <<groups, snapshot, groupIdx, remoteCallsRemaining,
                               sponsorRecord, summaries, result, outcome>>
    /\ UNCHANGED <<env, sponsors, op, company, batch, remoteCalls, skipped,
                   searchEmbedding, scoreVars, countVars, crawlVars>>

\* fetch rejects, or the provider answers non-2xx: landingClubRequest throws,
\* and no caller up to the route handler catches.
RemoteFails ==
    /\ pc = "http"
    /\ Finish(NoResult, "threw")
    /\ UNCHANGED <<env, sponsors, op, company, batch, remoteCallsRemaining,
                   sponsorRecord, remoteCalls, skipped, searchEmbedding, scoreVars, countVars, crawlVars>>

\* Lines 109-153: the insert ... on conflict do update, and the return.
UpsertWrite ==
    /\ pc = "upsertWrite"
    /\ LET values == MergedValues(company, landingClub[1], existing, now)
       IN  /\ sponsors' = Upsert(sponsors, values, ResolverSetColumns)
           /\ AfterSync(Returned(sponsors', values), landingClub)
    /\ UNCHANGED <<env, op, company, batch, remoteCalls, skipped, searchEmbedding,
                   scoreVars, countVars, crawlVars>>

-----------------------------------------------------------------------------
(* searchJobs *)

\* Lines 206-236: where the query vector comes from.  `io` is whether the
\* embedding provider, or the profile lookup, answers.
EmbeddingSource(params, io) ==
    IF params.description THEN (IF io THEN "text" ELSE "threw")
    ELSE IF params.userId # "none" /\ io /\ HasProfileEmbedding(params.userId)
         THEN "profile"
         ELSE "none"

\* The fallback query without its orderBy(desc(jobs.scrapedAt)).
RawResultsUnordered(params, source, flip) ==
    LET rows == {[j EXCEPT !.similarity = IF source = "text" THEN j.simText
                                          ELSE IF source = "profile" THEN j.simProfile
                                          ELSE <<>>] :
                    j \in {k \in Jobs : MatchesFilters(k, params)}}
    IN  Page(OrderByDesc(rows, FALSE, flip), params.limit, params.offset)

\* Lines 239-296: the ranked query, or the chronological fallback.
RawResults(params, source, flip) ==
    LET rows == {[j EXCEPT !.similarity = IF source = "text" THEN j.simText
                                          ELSE IF source = "profile" THEN j.simProfile
                                          ELSE <<>>] :
                    j \in {k \in Jobs : MatchesFilters(k, params)}}
    IN  Page(OrderByDesc(rows, source = "none", flip), params.limit, params.offset)

SearchStart(params, io, flip) ==
    /\ pc = "idle"
    /\ filters' = params
    /\ searchEmbedding' = EmbeddingSource(params, io)
    /\ LET source == EmbeddingSource(params, io)
       IN  IF source = "threw"
           THEN /\ op' = "search"
                /\ Finish(NoResult, "threw")
                /\ UNCHANGED <<env, sponsors, company, batch, remoteCallsRemaining,
                               sponsorRecord, remoteCalls, skipped, scoreVars, total, crawlVars>>
           ELSE BeginEnrich("search", RawResults(params, source, flip))

-----------------------------------------------------------------------------
(* The request handling system *)

Next ==
    \/ Tick
    \/ \E i \in 1..Len(Curated) : SeedWrite(i)
    \/ Reset
    \/ \E name \in ResolverNames : ResolveStart(name)
    \/ \E rows \in EnrichBatches : EnrichStart(rows)
    \/ EnrichLoop
    \/ RemoteOk
    \/ RemoteFails
    \/ UpsertWrite

Spec == Init /\ [][Next]_vars

\* Search requests alone: searchJobs with the enrichment it runs.
SearchNext ==
    \/ Tick
    \/ Reset
    \/ \E params \in SearchParams, io \in BOOLEAN, flip \in BOOLEAN :
          SearchStart(params, io, flip)
    \/ EnrichLoop
    \/ RemoteOk
    \/ RemoteFails
    \/ UpsertWrite

SearchSpec == Init /\ [][SearchNext]_vars

\* Search requests in which the program always goes on: it does not stay for
\* ever in a step of its own (the loop over the groups, the database write),
\* and the caller takes each result.  Nothing obliges the provider to answer:
\* RemoteOk and RemoteFails are steps of the provider, and landingClubRequest
\* arms no timer that would end the wait.
ProgramGoesOn == []<>(pc \notin {"loop", "upsertWrite"})

SearchFairSpec ==
    Init /\ [][SearchNext]_vars /\ WF_vars(Reset) /\ ProgramGoesOn

\* The same batch enriched again and again, against a provider that is
\* configured and answers every call: requests keep arriving, and each one
\* runs to its end.
BigBatch == OrderByDesc(Jobs, TRUE, FALSE)

RepeatInit == Init /\ configured

RepeatNext ==
    \/ Tick
    \/ Reset
    \/ EnrichStart(BigBatch)
    \/ EnrichLoop
    \/ RemoteOk
    \/ UpsertWrite

RequestsKeepCompleting == []<>(pc = "done" /\ op = "enrich" /\ outcome = "returned")

RepeatSpec ==
    RepeatInit /\ [][RepeatNext]_vars /\ WF_vars(Reset) /\ RequestsKeepCompleting

WithSimilarity(job, sim) == [job EXCEPT !.similarity = sim]

ScorePool ==
    { WithSimilarity(JobById(1), <<9000>>),
      WithSimilarity(JobById(2), <<10001>>),
      [WithSimilarity(JobById(3), <<-500>>) EXCEPT
          !.hasVisaSponsor = TRUE,
          !.visaSponsor = buildSponsorSummary(NullRow, <<FullCatalog(<<"a">>)[2]>>)],
      JobById(4),
      WithSimilarity(JobById(8), <<1000>>),
      [WithSimilarity(JobById(8), <<1004>>) EXCEPT !.id = 10],
      [WithSimilarity(JobById(5), <<3000>>) EXCEPT
          !.id = 11, !.visaStatus = NullText, !.sponsorshipConfidence = NullInt],
      [WithSimilarity(JobById(1), <<9000>>) EXCEPT !.id = 12, !.postedAt = StartTime] }

RECURSIVE ListsUpTo(_, _)
ListsUpTo(pool, n) ==
    IF n = 0 THEN {<<>>}
    ELSE LET shorter == ListsUpTo(pool, n - 1)
         IN  shorter \cup {Append(l, x) : l \in {k \in shorter : Len(k) = n - 1}, x \in pool}

ScoreInit ==
    /\ now \in {StartTime + k * ClockStep : k \in 0..MaxTicks}
    /\ configured = TRUE
    /\ catalog = "full"
    /\ sponsors = {}
    /\ skipped = {}
    /\ Idle
    /\ scoreIn \in ListsUpTo(ScorePool, MaxList)
    /\ scoreOut = <<>>
    /\ filters = NoFilters
    /\ total = NullInt
    /\ NoCrawl

ScoreApply ==
    /\ pc = "idle"
    /\ pc' = "done"
    /\ scoreOut' = applyScoring(scoreIn, now)
    /\ UNCHANGED <<env, sponsors, op, company, batch, groups, snapshot, groupIdx,
                   remoteCallsRemaining, sponsorRecord, landingClub, existing,
                   summaries, result, outcome, remoteCalls, searchEmbedding,
                   skipped, scoreIn, countVars, crawlVars>>

ScoreNext == ScoreApply

ScoreSpec == ScoreInit /\ [][ScoreNext]_vars

\* applyScoring on one posting, for every posted date around the steps of
\* computeRecencyScore and every visa status, stored confidence and attached
\* summary around the steps of computeSponsorScore.
PostedDates ==
    {NullInt, StartTime + Day} \cup
    {StartTime - d * Day + k : d \in {3, 7, 14, 30, 60}, k \in {-1, 0, 1, 5, 6, 7}}

SummaryWith(confidence) ==
    LET summary == buildSponsorSummary(NullRow, <<FullCatalog(<<"a">>)[2]>>)
    IN  <<[summary[1] EXCEPT !.sponsorshipConfidence = confidence]>>

AttachedSummaries == {NullSummary} \cup {SummaryWith(c) : c \in {NullInt, 39, 80}}

ComponentPool ==
    { [JobById(1) EXCEPT !.postedAt = p, !.visaStatus = v, !.sponsorshipConfidence = c,
                         !.hasVisaSponsor = TRUE, !.visaSponsor = sm] :
          p \in PostedDates,
          v \in {NullText, "sponsor_verified", "likely_sponsor", "unknown"},
          c \in {NullInt, 40, 59, 60, 79, 80},
          sm \in AttachedSummaries }

ComponentInit ==
    /\ now = StartTime
    /\ configured = TRUE
    /\ catalog = "full"
    /\ sponsors = {}
    /\ skipped = {}
    /\ Idle
    /\ scoreIn \in {<<job>> : job \in ComponentPool}
    /\ scoreOut = <<>>
    /\ filters = NoFilters
    /\ total = NullInt
    /\ NoCrawl

ComponentNext == Tick \/ ScoreApply

ComponentSpec == ComponentInit /\ [][ComponentNext]_vars

\* applyScoring called a second time on the list it was given before, the
\* clock having moved or not in between.
ScoreAgain ==
    /\ pc = "idle"
    /\ Len(scoreOut) = Len(scoreIn)
    /\ pc' = "done"
    /\ op' = "rescore"
    /\ result' = applyScoring(scoreIn, now)
    /\ outcome' = "returned"
    /\ UNCHANGED <<env, sponsors, company, batch, groups, snapshot, groupIdx,
                   remoteCallsRemaining, sponsorRecord, landingClub, existing,
                   summaries, remoteCalls, searchEmbedding, skipped, scoreVars, countVars, crawlVars>>

RescoreNext ==
    \/ ScoreApply
    \/ Reset
    \/ Tick
    \/ ScoreAgain

RescoreSpec == ScoreInit /\ [][RescoreNext]_vars

\* The resolver in a process without LANDING_CLUB_API_KEY, on a table that
\* the seed script and earlier processes with the key have written.
SyncedTable(tbl, name, time) ==
    LET normalized == normalizeCompanyName(name)
        lc == PickCandidate(FullCatalog(normalized), normalized)
    IN  UNION { Upsert(tbl, MergedValues(name, lc[1], old, time), ResolverSetColumns) :
                    old \in findSponsorByNormalizedName(tbl, normalized) }

SeededTable == Upsert({}, SeedValues(Curated[1]), SeedSetColumns(Curated[1]))

LeftBehindTables ==
    { {},
      SyncedTable({}, NameAcomma, StartTime - 1),
      SyncedTable(SeededTable, NameAcomma, StartTime - Day),
      SyncedTable({}, NameG, StartTime - Day) }

UnconfiguredInit ==
    /\ now = StartTime
    /\ configured = FALSE
    /\ catalog = "full"
    /\ sponsors \in LeftBehindTables
    /\ skipped = {}
    /\ Idle
    /\ scoreIn = <<>>
    /\ scoreOut = <<>>
    /\ filters = NoFilters
    /\ total = NullInt
    /\ NoCrawl

UnconfiguredNext ==
    \/ Tick
    \/ \E i \in 1..Len(Curated) : SeedWrite(i)
    \/ Reset
    \/ \E name \in ResolverNames : ResolveStart(name)

UnconfiguredSpec == UnconfiguredInit /\ [][UnconfiguredNext]_vars

\* Two pages of one ranked search, over a job table at rest, with no provider
\* configured: enrichJobsWithSponsors goes by the local records alone.
EnrichLocally(tbl, rows) ==
    IF Len(rows) = 0 \/ Groups(rows) = <<>> THEN rows
    ELSE LET grps == Groups(rows)
             found == BulkFetch(tbl, grps)
         IN  Attach(rows, grps,
                    [i \in 1..Len(grps) |->
                        buildSponsorSummary(found[i], extractMetadata(found[i]).landingClub)])

PageParams ==
    [description : BOOLEAN, userId : {"u1"},
     includeInactive : BOOLEAN, limit : {2, 3}, offset : {0, 1},
     jobType : {NullText}, isRemote : {"undefined"}, location : {<<>>},
     visaStatus : {NullText}, requiresVerifiedSponsor : {FALSE},
     minSponsorshipConfidence : {NullInt},
     postedAfter : {NullInt}, postedBefore : {NullInt}]

PagesInit ==
    /\ now = StartTime
    /\ configured = FALSE
    /\ catalog = "empty"
    /\ sponsors \in {{}, SeededTable}
    /\ skipped = {}
    /\ Idle
    /\ scoreIn = <<>>
    /\ scoreOut = <<>>
    /\ filters \in PageParams
    /\ total = NullInt
    /\ NoCrawl

\* searchJobs with the filters of the request, at its offset.
FirstPage(flip) ==
    /\ pc = "idle"
    /\ pc' = "paging"
    /\ op' = "pages"
    /\ searchEmbedding' = EmbeddingSource(filters, TRUE)
    /\ batch' = RawResults(filters, searchEmbedding', flip)
    /\ result' = applyScoring(EnrichLocally(sponsors, batch'), now)
    /\ outcome' = "returned"
    /\ UNCHANGED <<env, sponsors, company, groups, snapshot, groupIdx,
                   remoteCallsRemaining, sponsorRecord, landingClub, existing,
                   summaries, remoteCalls, skipped, scoreVars, countVars, crawlVars>>

\* searchJobs with the same filters, at the offset of the next page.
NextPage(flip) ==
    /\ pc = "paging"
    /\ pc' = "done"
    /\ LET params == [filters EXCEPT !.offset = filters.offset + filters.limit]
       IN  /\ scoreIn' = RawResults(params, searchEmbedding, flip)
           /\ scoreOut' = applyScoring(EnrichLocally(sponsors, scoreIn'), now)
    /\ UNCHANGED <<env, sponsors, op, company, batch, groups, snapshot, groupIdx,
                   remoteCallsRemaining, sponsorRecord, landingClub, existing,
                   summaries, result, outcome, remoteCalls, skipped,
                   searchEmbedding, countVars, crawlVars>>

PagesNext ==
    \/ Tick
    \/ \E flip \in BOOLEAN : FirstPage(flip)
    \/ \E flip \in BOOLEAN : NextPage(flip)

PagesSpec == PagesInit /\ [][PagesNext]_vars

\* normalizeCompanyName on its own: a name of letters of both cases, digits,
\* punctuation and spaces is normalized, and the value returned is
\* normalized again.  result holds the first value, batch the second.
NameAlphabet == {"A", "b", "1", ",", " "}

RECURSIVE NamesUpTo(_)
NamesUpTo(n) ==
    IF n = 0 THEN {<<>>}
    ELSE NamesUpTo(n - 1) \cup
         {Append(s, ch) : s \in {t \in NamesUpTo(n - 1) : Len(t) = n - 1}, ch \in NameAlphabet}

NormalizeInit ==
    /\ now = StartTime
    /\ configured = FALSE
    /\ catalog = "empty"
    /\ sponsors = {}
    /\ skipped = {}
    /\ pc = "idle"
    /\ op = "none"
    /\ company \in NamesUpTo(MaxName)
    /\ batch = <<>>
    /\ groups = <<>>
    /\ snapshot = <<>>
    /\ groupIdx = 0
    /\ remoteCallsRemaining = 0
    /\ sponsorRecord = NullRow
    /\ landingClub = <<>>
    /\ existing = NullRow
    /\ summaries = <<>>
    /\ result = NoResult
    /\ outcome = "none"
    /\ remoteCalls = 0
    /\ searchEmbedding = "none"
    /\ scoreIn = <<>>
    /\ scoreOut = <<>>
    /\ filters = NoFilters
    /\ total = NullInt
    /\ NoCrawl

NormalizeOnce ==
    /\ pc = "idle"
    /\ pc' = "normalized"
    /\ op' = "normalize"
    /\ result' = normalizeCompanyName(company)
    /\ UNCHANGED <<env, sponsors, company, batch, groups, snapshot, groupIdx,
                   remoteCallsRemaining, sponsorRecord, landingClub, existing,
                   summaries, outcome, remoteCalls, skipped, searchEmbedding,
                   scoreVars, countVars, crawlVars>>

NormalizeAgain ==
    /\ pc = "normalized"
    /\ pc' = "done"
    /\ batch' = normalizeCompanyName(result)
    /\ UNCHANGED <<env, sponsors, op, company, groups, snapshot, groupIdx,
                   remoteCallsRemaining, sponsorRecord, landingClub, existing,
                   summaries, result, outcome, remoteCalls, skipped,
                   searchEmbedding, scoreVars, countVars, crawlVars>>

\* The key of one name as the API, the seed script and the crawler compute it.
NormalizeInScripts ==
    /\ pc = "idle"
    /\ pc' = "done"
    /\ op' = "keys"
    /\ result' = [api |-> normalizeCompanyName(company),
                  seed |-> seedNormalizeCompanyName(company),
                  crawler |-> crawlerNormalizeCompanyName(company)]
    /\ UNCHANGED <<env, sponsors, company, batch, groups, snapshot, groupIdx,
                   remoteCallsRemaining, sponsorRecord, landingClub, existing,
                   summaries, outcome, remoteCalls, skipped, searchEmbedding,
                   scoreVars, countVars, crawlVars>>

NormalizeNext == NormalizeOnce \/ NormalizeAgain \/ NormalizeInScripts

NormalizeSpec == NormalizeInit /\ [][NormalizeNext]_vars

\* The search route on a table at rest: the query of searchJobs, then
\* getTotalJobCount, both with the filters of the request.
CountInit ==
    /\ now = StartTime
    /\ configured = FALSE
    /\ catalog = "empty"
    /\ sponsors = {}
    /\ skipped = {}
    /\ Idle
    /\ scoreIn = <<>>
    /\ scoreOut = <<>>
    /\ filters \in FilterParams
    /\ total = NullInt
    /\ NoCrawl

QueryRows(source, flip) ==
    /\ pc = "idle"
    /\ pc' = "counting"
    /\ op' = "count"
    /\ searchEmbedding' = source
    /\ batch' = RawResults(filters, source, flip)
    /\ UNCHANGED <<env, sponsors, company, groups, snapshot, groupIdx,
                   remoteCallsRemaining, sponsorRecord, landingClub, existing,
                   summaries, result, outcome, remoteCalls, skipped, scoreVars,
                   countVars, crawlVars>>

CountRows ==
    /\ pc = "counting"
    /\ pc' = "done"
    /\ total' = getTotalJobCount(filters)
    /\ UNCHANGED <<env, sponsors, op, company, batch, groups, snapshot, groupIdx,
                   remoteCallsRemaining, sponsorRecord, landingClub, existing,
                   summaries, result, outcome, remoteCalls, skipped,
                   searchEmbedding, scoreVars, filters, crawlVars>>

CountNext ==
    \/ \E source \in {"text", "none"}, flip \in BOOLEAN : QueryRows(source, flip)
    \/ CountRows

CountSpec == CountInit /\ [][CountNext]_vars

-----------------------------------------------------------------------------
(* Properties *)

Bijections(n) ==
    {f \in [1..n -> 1..n] : \A i, j \in 1..n : i # j => f[i] # f[j]}

\* C10: the list applyScoring returns is its input rearranged, in
\* descending order of matchScore, and postings with equal matchScore keep
\* the relative order they had in the input.
C10_SortedStablePermutation ==
    (pc = "done" /\ op = "none") =>
        /\ Len(scoreOut) = Len(scoreIn)
        /\ \A i, j \in 1..Len(scoreOut) :
              i < j => scoreOut[i].matchScore >= scoreOut[j].matchScore
        /\ \E f \in Bijections(Len(scoreIn)) :
              /\ \A i \in 1..Len(scoreIn) : scoreOut[i].job = scoreIn[f[i]]
              /\ \A i, j \in 1..Len(scoreIn) :
                    (i < j /\ scoreOut[i].matchScore = scoreOut[j].matchScore)
                        => f[i] < f[j]

\* A list of three in which a higher-scored posting came last and two
\* different postings tie.
C10_Witness ==
    /\ pc = "done" /\ op = "none"
    /\ Len(scoreIn) = 3
    /\ scoreOut[1].job = scoreIn[3]
    /\ scoreOut[2].matchScore = scoreOut[3].matchScore
    /\ scoreOut[2].job # scoreOut[3].job


SyncedAt(record) == extractMetadata(record).landingClubSyncedAt

\* C1: one call of enrichJobsWithSponsors sends at most five lookups to the
\* remote provider, however many companies its batch spans and whatever the
\* state of their local records.
C1_RemoteBudget ==
    op = "enrich" => remoteCalls <= REMOTE_SYNC_LIMIT_PER_REQUEST

\* A batch of more than five companies came back after five lookups, one
\* company left out for want of budget.
C1_Witness ==
    /\ op = "enrich" /\ pc = "done" /\ outcome = "returned"
    /\ Len(Groups(batch)) > REMOTE_SYNC_LIMIT_PER_REQUEST
    /\ remoteCalls = REMOTE_SYNC_LIMIT_PER_REQUEST
    /\ skipped # {}

\* C2: a resolution that finds a local record synced at most six hours ago
\* returns that record and sends nothing to the provider; one that finds a
\* record synced longer ago, with the provider configured, sends a lookup.
C2_StalenessGate ==
    (op = "resolve" /\ sponsorRecord # NullRow /\ SyncedAt(sponsorRecord) # NullInt) =>
        /\ now - SyncedAt(sponsorRecord) <= STALE_THRESHOLD_HOURS =>
              /\ pc = "done" /\ outcome = "returned"
              /\ remoteCalls = 0
              /\ result = Enrichment(sponsorRecord,
                                     extractMetadata(sponsorRecord).landingClub)
        /\ (now - SyncedAt(sponsorRecord) > STALE_THRESHOLD_HOURS /\ configured) =>
              remoteCalls = 1

\* A record synced exactly six hours ago was returned without a lookup.
C2_Witness ==
    /\ op = "resolve" /\ pc = "done"
    /\ sponsorRecord # NullRow
    /\ SyncedAt(sponsorRecord) # NullInt
    /\ now - SyncedAt(sponsorRecord) = STALE_THRESHOLD_HOURS
    /\ remoteCalls = 0

\* C3: the sponsors table never holds two rows with the same normalized
\* name, whatever sequence of resolver syncs and seed writes produced it.
C3_UniqueNormalizedName ==
    \A r1, r2 \in sponsors : r1.normalizedName = r2.normalizedName => r1 = r2

\* A row the seed script wrote has since been rewritten by a resolver sync.
C3_Witness ==
    \E r \in sponsors :
        /\ r.source = "landing_club"
        /\ r.metadata.curated = "reviewed"
        /\ Cardinality(sponsors) > 1

\* C4: a call of enrichJobsWithSponsors in which one remote lookup fails
\* still returns, with every posting of the batch in its result.
C4_BatchSurvivesRemoteFailure ==
    (op = "enrich" /\ pc = "done") =>
        (outcome = "returned" /\ Len(result) = Len(batch))

\* C5: a resolution that found a local record returns a record, also when
\* the remote lookup it went on to make failed; it never ends in an error.
C5_FallsBackToLocalRecord ==
    (op = "resolve" /\ pc = "done" /\ sponsorRecord # NullRow) =>
        (outcome = "returned" /\ result.sponsor # NullRow)

\* C6: the row a resolver sync writes is the merge of the provider's answer
\* with the row as it stands at the write, so nothing another writer wrote
\* since the resolver's read is lost, and one row remains for the name.
C6_NoReadModifyWriteRace ==
    [][ (pc = "upsertWrite" /\ pc' # "upsertWrite") =>
          LET normalized == normalizeCompanyName(company)
          IN  /\ Cardinality({r \in sponsors' : r.normalizedName = normalized}) = 1
              /\ \E fresh \in findSponsorByNormalizedName(sponsors, normalized) :
                    sponsors' = Upsert(sponsors,
                                       MergedValues(company, landingClub[1], fresh, now),
                                       ResolverSetColumns) ]_vars

\* C7: a company left out of one request for want of budget is looked up
\* remotely in some later request.
C7_SkippedEventuallyAttempted ==
    \A n \in {g.normalized : g \in Range(Groups(BigBatch))} :
        (n \in skipped) ~> (n \notin skipped)

\* C8: a search request waiting on the remote provider comes to an end,
\* whether or not the provider ever answers.
C8_SearchTerminates ==
    (op = "search" /\ pc = "http") ~> (pc = "done")

PositionIn(list, id) == CHOOSE k \in 1..Len(list) : list[k].id = id

FallbackSearchDone ==
    op = "search" /\ pc = "done" /\ outcome = "returned" /\ searchEmbedding = "none"

\* C9 as stated: without a query vector searchJobs returns the postings in
\* descending order of last-scraped time, each without a similarity.
C9_FallbackOrderedByScrapedAt ==
    FallbackSearchDone =>
        /\ \A i, j \in 1..Len(result) :
              i < j => result[i].job.scrapedAt >= result[j].job.scrapedAt
        /\ \A i \in 1..Len(result) :
              result[i].job.similarity = <<>> /\ result[i].scoreDetails.similarity = 0

\* C9 as amended: without a query vector searchJobs reads its page in
\* descending order of last-scraped time and returns that page in descending
\* order of matchScore, postings of equal matchScore in last-scraped order,
\* each without a similarity and with a similarity score of 0.
C9_FallbackPageRankedByMatchScore ==
    FallbackSearchDone =>
        /\ \A i, j \in 1..Len(batch) : i < j => batch[i].scrapedAt >= batch[j].scrapedAt
        /\ Len(result) = Len(batch)
        /\ {result[i].job.id : i \in 1..Len(result)} = {batch[i].id : i \in 1..Len(batch)}
        /\ \A i, j \in 1..Len(result) :
              i < j =>
                 /\ result[i].matchScore >= result[j].matchScore
                 /\ result[i].matchScore = result[j].matchScore =>
                       /\ PositionIn(batch, result[i].job.id)
                             < PositionIn(batch, result[j].job.id)
                       /\ result[i].job.scrapedAt >= result[j].job.scrapedAt
        /\ \A i \in 1..Len(result) :
              result[i].job.similarity = <<>> /\ result[i].scoreDetails.similarity = 0

\* A fallback search whose result is not in last-scraped order.
C9_Witness ==
    /\ FallbackSearchDone
    /\ Len(result) >= 3
    /\ \E i, j \in 1..Len(result) :
          i < j /\ result[i].job.scrapedAt < result[j].job.scrapedAt


Scored == {scoreOut[i] : i \in 1..Len(scoreOut)}

ScoringDone == pc = "done" /\ op = "none" /\ Len(scoreOut) = Len(scoreIn)

\* C11: a second call of applyScoring on the same list, whenever it is made,
\* returns what the first call returned: the same scores, reasons and order.
C11_SameResultWheneverCalled ==
    (op = "rescore" /\ pc = "done") => result = scoreOut

\* C12: every scored posting has its three score details and its matchScore
\* between 0 and 1, whatever its raw similarity, posted date and visa data.
C12_ScoresWithinUnitInterval ==
    ScoringDone =>
        \A r \in Scored :
            /\ r.scoreDetails.similarity \in 0..1000
            /\ r.scoreDetails.recency \in 0..1000
            /\ r.scoreDetails.sponsorship \in 0..1000
            /\ r.matchScore \in 0..1000

\* A list scored with a similarity above 1, a negative one, an absent one and
\* a posting dated in the future.
C12_Witness ==
    /\ ScoringDone
    /\ \E r \in Scored : r.job.similarity # <<>> /\ r.job.similarity[1] > 10000
    /\ \E r \in Scored : r.job.similarity # <<>> /\ r.job.similarity[1] < 0
    /\ \E r \in Scored : r.job.similarity = <<>> /\ r.job.postedAt > now

\* The composite of a posting before rounding, in 1/100000.
Composite(job, time) ==
    6 * (IF job.similarity = <<>> THEN 0
         ELSE IF job.similarity[1] < 0 THEN 0
         ELSE IF job.similarity[1] > 10000 THEN 10000 ELSE job.similarity[1])
    + 2500 * computeRecencyScore(job.postedAt, time)
    + 1500 * computeSponsorScore(job)

NearestThousandth(m, x) == 100 * m <= x + 50 /\ x + 50 < 100 * m + 100

TodayVerifiedNineTenths(r) ==
    /\ r.job.similarity = <<9000>>
    /\ r.job.postedAt \in (now - Day)..now
    /\ r.job.visaStatus = "sponsor_verified"

\* C13 as stated: matchScore is 0.6 similarity + 0.25 recency + 0.15
\* sponsorship rounded to 3 decimals, and similarity 0.9 with a post dated
\* today and status sponsor_verified gives 0.79.
C13_CompositeWithExample790 ==
    ScoringDone =>
        \A r \in Scored :
            /\ NearestThousandth(r.matchScore, Composite(r.job, now))
            /\ TodayVerifiedNineTenths(r) => r.matchScore = 790

\* C13 as amended: the same formula, and the example gives 0.94.
C13_CompositeFormula ==
    ScoringDone =>
        \A r \in Scored :
            /\ NearestThousandth(r.matchScore, Composite(r.job, now))
            /\ TodayVerifiedNineTenths(r) => r.matchScore = 940

\* The posting of the example has been scored, next to one whose composite
\* is not a whole number of thousandths.
C13_Witness ==
    /\ ScoringDone
    /\ \E r \in Scored : TodayVerifiedNineTenths(r) /\ r.matchScore = 940
    /\ \E r \in Scored : Composite(r.job, now) # 100 * r.matchScore

GenericReason == "Matches your filters"

\* C14: matchReasons is never empty; it holds the generic reason exactly when
\* similarity < 0.5, recency < 0.6 and sponsorship < 0.6, and then that is
\* its only entry.
C14_ReasonsNeverEmpty ==
    ScoringDone =>
        \A r \in Scored :
            /\ Len(r.matchReasons) >= 1
            /\ (\E k \in 1..Len(r.matchReasons) : r.matchReasons[k] = GenericReason)
                  <=> (/\ r.scoreDetails.similarity < 500
                       /\ r.scoreDetails.recency < 600
                       /\ r.scoreDetails.sponsorship < 600)
            /\ (\E k \in 1..Len(r.matchReasons) : r.matchReasons[k] = GenericReason)
                  => r.matchReasons = <<GenericReason>>

\* The posting with similarity 0.3, posted 90 days ago, without visa data
\* scored 0.18 with the generic reason, next to a posting with three reasons.
C14_Witness ==
    /\ ScoringDone
    /\ \E r \in Scored :
          /\ r.job.similarity = <<3000>> /\ r.matchScore = 180
          /\ r.matchReasons = <<GenericReason>>
    /\ \E r \in Scored : Len(r.matchReasons) = 3


\* C15: for every combination of filters getTotalJobCount counts exactly the
\* postings the query of searchJobs returns with the same filters when its
\* page holds them all.
C15_CountMatchesSearch ==
    (op = "count" /\ pc = "done") =>
        /\ total = Len(batch)
        /\ \A j \in Jobs : CountFilters(j, filters) <=> (\E k \in 1..Len(batch) : batch[k].id = j.id)

\* A request with a job type, a location, a minimum confidence and a posted
\* date filter counted the one posting its search returned.
C15_Witness ==
    /\ op = "count" /\ pc = "done"
    /\ filters.jobType = "internship"
    /\ filters.location # <<>>
    /\ filters.minSponsorshipConfidence = 0
    /\ filters.postedAfter # NullInt
    /\ total = 1
    /\ Len(batch) = 1


\* A search request is over.
SearchDone == op = "search" /\ pc = "done"

\* A search by description either ranked by the embedding of the description
\* or failed: it never fell back to the chronological query.
FailedDescriptionFailsSearch ==
    (SearchDone /\ filters.description) =>
        /\ searchEmbedding \in {"text", "threw"}
        /\ searchEmbedding = "threw" => (outcome = "threw" /\ result = NoResult)
        /\ searchEmbedding = "text" /\ outcome = "returned" => Len(result) = Len(batch)

\* A search by profile whose profile embedding could not be obtained.
ProfileSearchWithoutEmbedding ==
    /\ SearchDone
    /\ ~filters.description
    /\ filters.userId # "none"
    /\ searchEmbedding = "none"

\* C16: a search by profile whose profile embedding cannot be obtained does
\* not fail: it returns the filtered postings of the chronological fallback.
\* A search by description whose embedding cannot be generated fails.
C16_EmbeddingFailureHandling ==
    /\ FailedDescriptionFailsSearch
    /\ ProfileSearchWithoutEmbedding =>
          /\ outcome = "returned"
          /\ {result[k].job.id : k \in 1..Len(result)} = {batch[k].id : k \in 1..Len(batch)}

\* The same, for the requests in which no call to the provider failed.
ProfileFallbackUnlessRemoteFails ==
    ProfileSearchWithoutEmbedding /\ outcome = "returned" =>
        /\ Len(result) = Len(batch)
        /\ \A k \in 1..Len(batch) :
              /\ MatchesFilters(JobById(batch[k].id), filters)
              /\ \E i \in 1..Len(result) : result[i].job.id = batch[k].id
        /\ \A k \in 1..(Len(batch) - 1) : batch[k].scrapedAt >= batch[k + 1].scrapedAt


\* C17: normalizeCompanyName is idempotent: normalizing a normalized name
\* returns it unchanged.
C17_NormalizeIdempotent ==
    (op = "normalize" /\ pc = "done") => batch = result

\* A name with an upper-case letter, punctuation and a space at its end was
\* normalized twice, and the first normalization changed it.
C17_Witness ==
    /\ op = "normalize" /\ pc = "done"
    /\ \E i \in 1..Len(company) : company[i] = "A"
    /\ \E i \in 1..Len(company) : company[i] = ","
    /\ Len(company) > 2 /\ company[Len(company)] = " "
    /\ Len(result) > 1
    /\ result # company
    /\ batch = result


\* A call of enrichJobsWithSponsors returned.
EnrichReturned == op = "enrich" /\ pc = "done" /\ outcome = "returned"

\* The company of a posting gives no group: empty, missing, or normalized to
\* the empty string.
UnusableCompany(job) == normalizeCompanyName(job.company) = <<>>

\* The rows returned are the rows given, in the same number and order.
SamePostingsInOrder ==
    EnrichReturned =>
        /\ Len(result) = Len(batch)
        /\ \A k \in 1..Len(batch) : result[k].id = batch[k].id

\* C18: enrichJobsWithSponsors returns the postings given in the same number
\* and order, each with a visaSponsor field, which is null for a posting
\* without a usable company name.
C18_EveryPostingCarriesSummary ==
    /\ SamePostingsInOrder
    /\ EnrichReturned =>
          \A k \in 1..Len(result) :
              /\ result[k].hasVisaSponsor
              /\ UnusableCompany(result[k]) => result[k].visaSponsor = NullSummary

\* The same for the batches that have a usable company name.
SummaryAttachedWhenGrouped ==
    (EnrichReturned /\ \E k \in 1..Len(batch) : ~UnusableCompany(batch[k])) =>
          \A k \in 1..Len(result) :
              /\ result[k].hasVisaSponsor
              /\ UnusableCompany(result[k]) => result[k].visaSponsor = NullSummary


\* The row upsertSponsorFromLandingClub read at line 95 was found through its
\* alias list, not by its normalized name.
FoundByAliasOnly ==
    /\ existing # NullRow
    /\ existing[1].normalizedName # normalizeCompanyName(company)
    /\ normalizeCompanyName(company) \in Range(existing[1].aliases)

\* C19: a resolver sync for a name that matches an existing record only
\* through the alias list of that record writes to that record and adds no
\* row, so one record stands for the employer.
C19_AliasMatchAddsNoRow ==
    [][ (pc = "upsertWrite" /\ pc' # "upsertWrite" /\ FoundByAliasOnly) =>
          /\ Cardinality(sponsors') = Cardinality(sponsors)
          /\ \A r1, r2 \in sponsors' :
                r1 # r2 => r2.normalizedName \notin Range(r1.aliases) ]_vars


\* C20: without a configured provider getSponsorEnrichmentForCompany returns
\* in one step the local record of the company, fresh or stale, with the
\* payload cached in it, or a null sponsor when the table has none; it sends
\* no request and leaves the table as it is.
C20_UnconfiguredReturnsLocal ==
    [][ (pc = "idle" /\ op' = "resolve" /\ ~configured) =>
          /\ pc' = "done"
          /\ outcome' = "returned"
          /\ remoteCalls' = 0
          /\ sponsors' = sponsors
          /\ result'.sponsor \in
                 findSponsorByNormalizedName(sponsors, normalizeCompanyName(company'))
          /\ result'.landingClub = extractMetadata(result'.sponsor).landingClub ]_vars

\* Without a configured provider a resolution returned a stale record with
\* the payload an earlier sync cached in it.
C20_Witness ==
    /\ op = "resolve" /\ pc = "done" /\ ~configured
    /\ outcome = "returned"
    /\ result.sponsor # NullRow
    /\ isSponsorStale(result.sponsor, now)
    /\ result.landingClub # <<>>
    /\ remoteCalls = 0


\* The provider has answered the request in flight, with no candidate for the
\* company.
NoCandidateAnswer ==
    /\ pc = "http"
    /\ pc' # "http"
    /\ outcome' # "threw"
    /\ PickCandidate(searchLandingClubSponsors(catalog, normalizeCompanyName(company)),
                     normalizeCompanyName(company)) = <<>>

\* C21: when the provider returns no candidate the table stays as it is, and
\* the resolver returns the local record it read before the call, with the
\* payload cached in it, or a null sponsor when it read none.
C21_NoCandidateLeavesTable ==
    [][ NoCandidateAnswer =>
          /\ sponsors' = sponsors
          /\ op = "resolve" =>
                /\ pc' = "done"
                /\ outcome' = "returned"
                /\ result'.sponsor = sponsorRecord
                /\ result'.landingClub = extractMetadata(sponsorRecord).landingClub ]_vars

\* A resolution that sent a request and got no candidate returned the local
\* record, which carries no sync timestamp.
C21_Witness ==
    /\ op = "resolve" /\ pc = "done" /\ outcome = "returned"
    /\ remoteCalls = 1
    /\ catalog = "empty"
    /\ result.sponsor # NullRow
    /\ result.sponsor = sponsorRecord
    /\ result.sponsor[1] \in sponsors
    /\ extractMetadata(result.sponsor).landingClubSyncedAt = NullInt


\* The entries of a list column, none when the column is null.
Entries(list) == IF list = NullList THEN {} ELSE Range(list) \ {""}

\* `new` is the merge of the record `old` with the provider's answer `lc`.
IsMergeOf(new, old, lc) ==
    /\ Entries(new.sponsorshipTypes) = Entries(lc.visaTypes) \cup Entries(old.sponsorshipTypes)
    /\ new.sponsorshipTypes # NullList =>
          Cardinality(Range(new.sponsorshipTypes)) = Len(new.sponsorshipTypes)
    /\ new.sponsorshipConfidence =
          (IF lc.sponsorshipConfidence # NullInt THEN lc.sponsorshipConfidence
           ELSE IF old.sponsorshipConfidence # NullInt THEN old.sponsorshipConfidence
           ELSE 50)
    /\ new.lastYearSponsored =
          (IF lc.lastYearSponsored # NullInt THEN lc.lastYearSponsored
           ELSE old.lastYearSponsored)
    /\ new.source = "landing_club"
    /\ new.aliases = old.aliases
    /\ new.metadata.curated = (IF old.metadata.present THEN old.metadata.curated
                               ELSE NoMetadata.curated)

\* The write of a resolver sync has just been made.
SyncWrites == pc = "upsertWrite" /\ pc' # "upsertWrite"

\* C22: after a sync for a company that has a record in the table, the
\* record of the company is the merge of the record as it stood with the
\* provider's answer: the union of the visa types without duplicates, the
\* provider's confidence and last year sponsored where given and the
\* record's otherwise, source landing_club, aliases and other metadata kept.
C22_SyncMergesExistingRecord ==
    [][ SyncWrites =>
          \A old \in sponsors :
              old.normalizedName = normalizeCompanyName(company) =>
                 \E new \in sponsors' :
                     /\ new.normalizedName = old.normalizedName
                     /\ IsMergeOf(new, old, landingClub[1]) ]_vars

\* The same against the record the sync read at line 95 under the
\* normalized name of the company.
SyncMergesRecordRead ==
    [][ (SyncWrites /\ existing # NullRow
            /\ existing[1].normalizedName = normalizeCompanyName(company)) =>
          \E new \in sponsors' :
              /\ new.normalizedName = normalizeCompanyName(company)
              /\ IsMergeOf(new, existing[1], landingClub[1]) ]_vars


\* The steps of the recency component: days since posting, score in 1/1000.
RecencySteps ==
    << [days |-> 3, score |-> 1000], [days |-> 7, score |-> 800],
       [days |-> 14, score |-> 600], [days |-> 30, score |-> 400],
       [days |-> 60, score |-> 200] >>

\* The score of the first step the age in hours falls in, 0 past the last.
RecencyOfAge(hours) ==
    LET within == {i \in 1..Len(RecencySteps) : hours <= RecencySteps[i].days * Day}
    IN  IF within = {} THEN 0
        ELSE RecencySteps[CHOOSE i \in within : \A j \in within : i <= j].score

\* C23: the recency component is the step function of the days since
\* posting, each boundary in the higher step, 0 for an unknown posted date.
C23_RecencyStepFunction ==
    ScoringDone =>
        \A r \in Scored :
            r.scoreDetails.recency =
                (IF r.job.postedAt = NullInt THEN 0 ELSE RecencyOfAge(now - r.job.postedAt))

\* After the clock moved, a posting exactly 7 days old was scored 0.8.
C23_Witness ==
    /\ ScoringDone
    /\ now > StartTime
    /\ \E r \in Scored : /\ r.job.postedAt # NullInt
                         /\ now - r.job.postedAt = 7 * Day
                         /\ r.scoreDetails.recency = 800

\* The confidence computeSponsorScore goes by.
ConfidenceOf(job) ==
    IF job.visaSponsor # NullSummary /\ job.visaSponsor[1].sponsorshipConfidence # NullInt
    THEN job.visaSponsor[1].sponsorshipConfidence
    ELSE job.sponsorshipConfidence

\* C24: the sponsorship component goes by the confidence of the attached
\* summary when it has one and by the posting's own otherwise, first match
\* of: sponsor_verified 1.0, >= 80 0.9, >= 60 0.6, likely_sponsor 0.5,
\* >= 40 0.3, otherwise 0.
C24_SponsorshipRules ==
    ScoringDone =>
        \A r \in Scored :
            LET c == ConfidenceOf(r.job)
                has == c # NullInt
            IN  r.scoreDetails.sponsorship =
                    (IF r.job.visaStatus = "sponsor_verified" THEN 1000
                     ELSE IF has /\ c >= 80 THEN 900
                     ELSE IF has /\ c >= 60 THEN 600
                     ELSE IF r.job.visaStatus = "likely_sponsor" THEN 500
                     ELSE IF has /\ c >= 40 THEN 300
                     ELSE 0)

\* A likely_sponsor posting with a stored confidence of 80 and an attached
\* summary of confidence 39 was scored 0.5.
C24_Witness ==
    /\ ScoringDone
    /\ \E r \in Scored : /\ r.job.visaStatus = "likely_sponsor"
                         /\ r.job.sponsorshipConfidence = 80
                         /\ r.job.visaSponsor # NullSummary
                         /\ r.job.visaSponsor[1].sponsorshipConfidence = 39
                         /\ r.scoreDetails.sponsorship = 500


\* The query of a search has returned its rows.
RowsReturned == op = "count" /\ pc \in {"counting", "done"}

\* C25: every posting the query of searchJobs returns satisfies every filter
\* of the request: it is active unless includeInactive is set, and under
\* requiresVerifiedSponsor it is sponsor_verified with a sponsor link, whatever
\* visaStatus filter comes with it.
C25_ResultsSatisfyAllFilters ==
    RowsReturned =>
        \A k \in 1..Len(batch) :
            LET job == JobById(batch[k].id)
            IN  /\ ~filters.includeInactive => job.isActive
                /\ filters.requiresVerifiedSponsor =>
                      job.visaStatus = "sponsor_verified" /\ job.visaSponsorId # NullText
                /\ filters.visaStatus # NullText => job.visaStatus = filters.visaStatus
                /\ filters.jobType \notin {NullText, "all"} => job.jobType = filters.jobType
                /\ filters.isRemote = "true" => job.isRemote
                /\ filters.isRemote = "false" => ~job.isRemote
                /\ filters.location # <<>> =>
                      Contains(toLowerCase(job.location), toLowerCase(filters.location))
                /\ filters.minSponsorshipConfidence # NullInt =>
                      job.sponsorshipConfidence >= filters.minSponsorshipConfidence
                /\ filters.postedAfter # NullInt =>
                      job.postedAt # NullInt /\ job.postedAt >= filters.postedAfter
                /\ filters.postedBefore # NullInt =>
                      job.postedAt # NullInt /\ job.postedAt <= filters.postedBefore

\* A request with requiresVerifiedSponsor and includeInactive returned the
\* verified posting with a sponsor link and not the one without.
C25_Witness ==
    /\ RowsReturned
    /\ filters.requiresVerifiedSponsor /\ filters.includeInactive
    /\ filters.visaStatus = "sponsor_verified"
    /\ Len(batch) = 1
    /\ batch[1].visaSponsorId # NullText
    /\ \E j \in Jobs : /\ j.visaStatus = "sponsor_verified"
                       /\ j.visaSponsorId = NullText
                       /\ j.id # batch[1].id

\* A request with requiresVerifiedSponsor and the visaStatus filter "unknown"
\* returned nothing.
ConflictingStatusReturnsNothing ==
    (RowsReturned /\ filters.requiresVerifiedSponsor /\ filters.visaStatus = "unknown") =>
        batch = <<>>


\* C26: for every company name the key the seed script stores and the key
\* the crawler matches by are the key normalizeCompanyName of the API computes.
C26_SameKeyEverywhere ==
    (op = "keys" /\ pc = "done") =>
        /\ result.seed = result.api
        /\ result.crawler = result.api

\* The seed script and the crawler compute one key for every name.
SeedAndCrawlerAgree ==
    (op = "keys" /\ pc = "done") => result.seed = result.crawler

\* The three keys agree for the names that neither begin nor end with a
\* character outside a-z, 0-9 once trimmed and put in lower case.
SameKeyForPlainNames ==
    (op = "keys" /\ pc = "done") =>
        LET lowered == toLowerCase(trim(company))
        IN  (lowered = <<>> \/ (Head(lowered) \in LowerAlnum
                                  /\ lowered[Len(lowered)] \in LowerAlnum))
                => (result.seed = result.api /\ result.crawler = result.api)

\* A curated row is stored under the key the API computes for its company
\* name, so the exact lookups of the resolver and the enricher find it.
SeededRowFoundByApiKey ==
    \A r \in sponsors :
        r.source # "landing_club" => r.normalizedName = normalizeCompanyName(r.companyName)


\* Two pages of one ranked search have been returned.
PagesDone == op = "pages" /\ pc = "done"

\* C27: with the same filters and query vector over an unchanged job table,
\* no posting of the page at the larger offset has a higher matchScore than
\* a posting of the page at the smaller offset.
C27_RankingConsistentAcrossPages ==
    PagesDone =>
        \A i \in 1..Len(result), j \in 1..Len(scoreOut) :
            scoreOut[j].matchScore <= result[i].matchScore

\* What does hold: no raw similarity of the later page is above one of the
\* earlier page, a missing similarity counting as the highest.
PagesOrderedBySimilarity ==
    PagesDone =>
        \A i \in 1..Len(batch), j \in 1..Len(scoreIn) :
            LET key(row) == IF row.similarity = <<>> THEN NullsFirst ELSE row.similarity[1]
            IN  key(scoreIn[j]) <= key(batch[i])

\* Within each page the postings are in descending order of matchScore.
EachPageRankedByMatchScore ==
    PagesDone =>
        /\ \A i, j \in 1..Len(result) : i < j => result[i].matchScore >= result[j].matchScore
        /\ \A i, j \in 1..Len(scoreOut) :
              i < j => scoreOut[i].matchScore >= scoreOut[j].matchScore

-----------------------------------------------------------------------------
(* The crawlers: upsertJob and markMissingJobs on the jobs table *)

\* The urls of the postings the listings hold.
Urls == {"u1", "u2"}

\* repo.source of the GitHub crawler and the source tag of a platform crawl.
GitHubSource == "github_simplify_new_grad"
PlatformSource == "greenhouse_acme"
CrawlSources == {GitHubSource, PlatformSource}

\* markMissingJobs: staleThreshold is thirty days before now.
StaleAfter == 30 * Day

\* The row an insert of upsertJob makes: is_active takes the schema default.
InsertedJob(url, source, time) ==
    [url |-> url, source |-> source, isActive |-> TRUE, lastSeenAt |-> time]

\* upsertJob of the GitHub crawler: insert ... on conflict (url) do update;
\* the set list writes source and lastSeenAt and has no isActive.
upsertJob(tbl, url, source, time) ==
    IF \E r \in tbl : r.url = url
    THEN {IF r.url = url THEN [r EXCEPT !.source = source, !.lastSeenAt = time] ELSE r
            : r \in tbl}
    ELSE tbl \cup {InsertedJob(url, source, time)}

\* upsertJob of the multi-platform crawler: the same statement with
\* isActive: true in the values and in the set list.
upsertJobMultiPlatform(tbl, url, source, time) ==
    IF \E r \in tbl : r.url = url
    THEN {IF r.url = url
            THEN [r EXCEPT !.source = source, !.lastSeenAt = time, !.isActive = TRUE]
            ELSE r
            : r \in tbl}
    ELSE tbl \cup {InsertedJob(url, source, time)}

\* markMissingJobs: nothing with an empty set of seen urls; else the rows of
\* the source that were not seen and were last seen before the threshold
\* become inactive, their lastSeenAt the present.
markMissingJobs(tbl, source, seen, time) ==
    IF seen = {}
    THEN tbl
    ELSE {IF r.source = source /\ r.url \notin seen /\ r.lastSeenAt < time - StaleAfter
            THEN [r EXCEPT !.isActive = FALSE, !.lastSeenAt = time]
            ELSE r
            : r \in tbl}

\* The listings a crawl reads: up to MaxList urls, repeats allowed.
Listings == UNION {[1..n -> Urls] : n \in 0..MaxList}

\* The rows earlier crawls left: active, last seen forty days or one day ago.
EarlierRows ==
    {InsertedJob(u, src, t) : u \in Urls, src \in CrawlSources,
                              t \in {StartTime - 40 * Day, StartTime - Day}}

EarlierTables ==
    {tbl \in SUBSET EarlierRows : \A r1, r2 \in tbl : r1.url = r2.url => r1 = r2}

CrawlInit ==
    /\ now = StartTime
    /\ configured = FALSE
    /\ catalog = "empty"
    /\ sponsors = {}
    /\ skipped = {}
    /\ Idle
    /\ scoreIn = <<>>
    /\ scoreOut = <<>>
    /\ filters = NoFilters
    /\ total = NullInt
    /\ postings \in EarlierTables
    /\ seenUrls = {}
    /\ retries = 0
    /\ attempt = 0
    /\ fetchLog = <<>>

\* A crawl begins: crawl() of the GitHub crawler makes a new Set of seen
\* urls for the repository; a platform crawl has its list of postings.
CrawlStart(crawler, listing) ==
    /\ pc = "idle"
    /\ pc' = "crawl"
    /\ op' = crawler
    /\ batch' = listing
    /\ groupIdx' = 1
    /\ seenUrls' = {}
    /\ UNCHANGED <<env, sponsors, company, groups, snapshot, remoteCallsRemaining,
                   sponsorRecord, landingClub, existing, summaries, result, outcome,
                   remoteCalls, skipped, searchEmbedding, scoreVars, countVars,
                   postings, retries, attempt, fetchLog>>

\* One iteration of the GitHub crawler's loop over the parsed jobs: the url
\* joins seenUrls, then upsertJob runs inside try/catch; a failure is counted
\* and the loop goes on.
CrawlGitHubJob(fails) ==
    /\ pc = "crawl"
    /\ op = "github"
    /\ groupIdx <= Len(batch)
    /\ seenUrls' = seenUrls \cup {batch[groupIdx]}
    /\ postings' = IF fails THEN postings
                   ELSE upsertJob(postings, batch[groupIdx], GitHubSource, now)
    /\ outcome' = IF fails THEN "error" ELSE "ok"
    /\ groupIdx' = groupIdx + 1
    /\ UNCHANGED <<env, sponsors, pc, op, company, batch, groups, snapshot,
                   remoteCallsRemaining, sponsorRecord, landingClub, existing,
                   summaries, result, remoteCalls, skipped, searchEmbedding,
                   scoreVars, countVars, retries, attempt, fetchLog>>

\* One iteration of a platform crawl's loop: upsertJob; the try/catch is
\* around the loop, so a failure ends the crawl of this company.
CrawlPlatformJob(fails) ==
    /\ pc = "crawl"
    /\ op = "platform"
    /\ groupIdx <= Len(batch)
    /\ postings' = IF fails THEN postings
                   ELSE upsertJobMultiPlatform(postings, batch[groupIdx], PlatformSource, now)
    /\ outcome' = IF fails THEN "error" ELSE "ok"
    /\ groupIdx' = IF fails THEN Len(batch) + 1 ELSE groupIdx + 1
    /\ UNCHANGED <<env, sponsors, pc, op, company, batch, groups, snapshot,
                   remoteCallsRemaining, sponsorRecord, landingClub, existing,
                   summaries, result, remoteCalls, skipped, searchEmbedding,
                   scoreVars, countVars, seenUrls, retries, attempt, fetchLog>>

\* The end of a crawl: the GitHub crawler calls markMissingJobs with the
\* urls it saw; a platform crawl only returns.
CrawlEnd ==
    /\ pc = "crawl"
    /\ groupIdx > Len(batch)
    /\ pc' = "done"
    /\ postings' = IF op = "github"
                   THEN markMissingJobs(postings, GitHubSource, seenUrls, now)
                   ELSE postings
    /\ UNCHANGED <<env, sponsors, op, company, batch, groups, snapshot, groupIdx,
                   remoteCallsRemaining, sponsorRecord, landingClub, existing,
                   summaries, result, outcome, remoteCalls, skipped, searchEmbedding,
                   scoreVars, countVars, seenUrls, retries, attempt, fetchLog>>

CrawlNext ==
    \/ Tick
    \/ \E crawler \in {"github", "platform"}, listing \in Listings :
          CrawlStart(crawler, listing)
    \/ \E fails \in BOOLEAN : CrawlGitHubJob(fails)
    \/ \E fails \in BOOLEAN : CrawlPlatformJob(fails)
    \/ CrawlEnd
    \/ Reset

CrawlSpec == CrawlInit /\ [][CrawlNext]_vars

\* upsertJob has just run to its end for the posting at this url.
UpsertedJob(url) ==
    /\ pc = "crawl"
    /\ pc' = "crawl"
    /\ groupIdx' = groupIdx + 1
    /\ batch[groupIdx] = url
    /\ outcome' = "ok"

InactivePosting(tbl, url) == \E r \in tbl : r.url = url /\ ~r.isActive
ActivePosting(tbl, url) == \E r \in tbl : r.url = url /\ r.isActive

\* C28: a posting that markMissingJobs made inactive and that a later crawl
\* lists again is active after that crawl's upsertJob, in every crawler.
C28_ReappearingPostingActiveAgain ==
    [][\A url \in Urls :
          (UpsertedJob(url) /\ InactivePosting(postings, url))
              => ActivePosting(postings', url)]_vars

\* What does hold: the multi-platform crawler's upsertJob leaves the posting
\* active.
PlatformUpsertActivates ==
    [][\A url \in Urls :
          (UpsertedJob(url) /\ op = "platform") => ActivePosting(postings', url)]_vars

\* The jobs table holds one row for each url.
OneRowPerUrl == \A r1, r2 \in postings : r1.url = r2.url => r1 = r2

-----------------------------------------------------------------------------
(* fetchWithRetry of the multi-platform crawler *)

MaxRetries == 3     \* the largest config.retries

DEFAULT_RETRYABLE_STATUSES == {408, 425, 429, 500, 502, 503, 504}

\* backoffMs when the caller gives none.
DefaultBackoffMs == 500

\* The statuses the servers answer with.
Statuses == {200, 404, 429, 503}

\* response.ok
ResponseOk(status) == status \in 200..299

Response(status) == [kind |-> "response", status |-> status]
NetworkError == [kind |-> "error"]
Slept(ms) == [kind |-> "sleep", ms |-> ms]

\* The error thrown after the loop when no attempt has thrown.
FailedToFetch == [kind |-> "failed"]

\* The test of the loop for a response that is not ok: on the last attempt,
\* or with a status outside retryOnStatuses, the response is returned. With
\* the last check left out the loop goes round once more.
returnsResponseWithoutLastCheck(status, n, r) ==
    ResponseOk(status) \/ status \notin DEFAULT_RETRYABLE_STATUSES

returnsResponse(status, n, r) ==
    ResponseOk(status) \/ n = r \/ status \notin DEFAULT_RETRYABLE_STATUSES

\* lastError after the loop: the error of the last attempt that threw.
lastThrown(log) ==
    IF \E k \in 1..Len(log) : log[k].kind = "error" THEN NetworkError ELSE FailedToFetch

FetchInit ==
    /\ now = StartTime
    /\ configured = FALSE
    /\ catalog = "empty"
    /\ sponsors = {}
    /\ skipped = {}
    /\ Idle
    /\ scoreIn = <<>>
    /\ scoreOut = <<>>
    /\ filters = NoFilters
    /\ total = NullInt
    /\ NoCrawl

\* The call: attempt = 0, and the first test of while (attempt <= retries).
FetchStart(r) ==
    /\ pc = "idle"
    /\ op' = "fetchWithRetry"
    /\ retries' = r
    /\ attempt' = 0
    /\ fetchLog' = <<>>
    /\ IF 0 <= r
       THEN pc' = "fetch" /\ UNCHANGED <<outcome, result>>
       ELSE pc' = "done" /\ outcome' = "thrown" /\ result' = FailedToFetch
    /\ UNCHANGED <<env, sponsors, company, batch, groups, snapshot, groupIdx,
                   remoteCallsRemaining, sponsorRecord, landingClub, existing,
                   summaries, remoteCalls, skipped, searchEmbedding, scoreVars,
                   countVars, postings, seenUrls>>

\* After a failed attempt that is not the last: attempt++ and
\* sleep(backoffMs * attempt) begins.
BackOff(entry) ==
    /\ attempt' = attempt + 1
    /\ fetchLog' = fetchLog \o <<entry, Slept(DefaultBackoffMs * (attempt + 1))>>
    /\ pc' = "sleep"
    /\ UNCHANGED <<outcome, result>>

\* fetch resolves with a response.
FetchResponds(status) ==
    /\ pc = "fetch"
    /\ IF returnsResponse(status, attempt, retries)
       THEN /\ pc' = "done"
            /\ outcome' = "returned"
            /\ result' = Response(status)
            /\ fetchLog' = Append(fetchLog, Response(status))
            /\ UNCHANGED attempt
       ELSE BackOff(Response(status))
    /\ UNCHANGED <<env, sponsors, op, company, batch, groups, snapshot, groupIdx,
                   remoteCallsRemaining, sponsorRecord, landingClub, existing,
                   summaries, remoteCalls, skipped, searchEmbedding, scoreVars,
                   countVars, postings, seenUrls, retries>>

\* fetch rejects with a network error.
FetchFails ==
    /\ pc = "fetch"
    /\ IF attempt = retries
       THEN /\ pc' = "done"
            /\ outcome' = "thrown"
            /\ result' = NetworkError
            /\ fetchLog' = Append(fetchLog, NetworkError)
            /\ UNCHANGED attempt
       ELSE BackOff(NetworkError)
    /\ UNCHANGED <<env, sponsors, op, company, batch, groups, snapshot, groupIdx,
                   remoteCallsRemaining, sponsorRecord, landingClub, existing,
                   summaries, remoteCalls, skipped, searchEmbedding, scoreVars,
                   countVars, postings, seenUrls, retries>>

\* The timer of sleep fires: the test of the loop, then the next fetch, or
\* the throw after the loop.
Wake ==
    /\ pc = "sleep"
    /\ IF attempt <= retries
       THEN pc' = "fetch" /\ UNCHANGED <<outcome, result>>
       ELSE pc' = "done" /\ outcome' = "thrown" /\ result' = lastThrown(fetchLog)
    /\ UNCHANGED <<env, sponsors, op, company, batch, groups, snapshot, groupIdx,
                   remoteCallsRemaining, sponsorRecord, landingClub, existing,
                   summaries, remoteCalls, skipped, searchEmbedding, scoreVars,
                   countVars, crawlVars>>

FetchSettles == (\E status \in Statuses : FetchResponds(status)) \/ FetchFails

FetchNext ==
    \/ \E r \in 0..MaxRetries : FetchStart(r)
    \/ \E status \in Statuses : FetchResponds(status)
    \/ FetchFails
    \/ Wake
    \/ Reset

FetchSpec == FetchInit /\ [][FetchNext]_vars

\* Every fetch settles, with a response or a network error, and every timer
\* fires.
FetchFairSpec == FetchSpec /\ WF_vars(FetchSettles) /\ WF_vars(Wake)

\* The fetch attempts made so far.
RECURSIVE Attempts(_)
Attempts(log) ==
    IF log = <<>> THEN 0
    ELSE (IF Head(log).kind = "sleep" THEN 0 ELSE 1) + Attempts(Tail(log))

Retryable(entry) ==
    \/ entry.kind = "error"
    \/ entry.kind = "response" /\ ~ResponseOk(entry.status)
                               /\ entry.status \in DEFAULT_RETRYABLE_STATUSES

FetchReturned == op = "fetchWithRetry" /\ pc = "done"

\* What fetchWithRetry answers with, and after what.
FetchAnswer ==
    /\ op = "fetchWithRetry" => Attempts(fetchLog) <= retries + 1
    /\ FetchReturned =>
          LET n == Len(fetchLog)
              last == fetchLog[n]
          IN  /\ n > 0
              /\ last.kind \in {"response", "error"}
              /\ \A k \in 1..(n - 1) : fetchLog[k].kind # "sleep" => Retryable(fetchLog[k])
              /\ last.kind = "response" =>
                    /\ outcome = "returned"
                    /\ result = last
                    /\ Retryable(last) => Attempts(fetchLog) = retries + 1
              /\ last.kind = "error" =>
                    /\ outcome = "thrown"
                    /\ result = last
                    /\ Attempts(fetchLog) = retries + 1

\* C29: fetchWithRetry ends after at most retries + 1 fetch attempts; it
\* returns the first response that is ok or has a status that is not retried,
\* returns the last response when the last attempt still has a retried
\* status, throws the network error of a last attempt that failed, and does
\* not sleep after the last attempt.
C29_FetchWithRetryTerminates ==
    /\ []FetchAnswer
    /\ (pc = "fetch") ~> FetchReturned

\* The last of four attempts answered 503 after two 429s and a network
\* error, and that response was returned.
C29_Witness ==
    /\ FetchReturned
    /\ retries = 3
    /\ outcome = "returned"
    /\ result = Response(503)
    /\ Attempts(fetchLog) = 4
    /\ fetchLog[1] = Response(429)
    /\ fetchLog[5] = NetworkError

-----------------------------------------------------------------------------
(* The adapters: extractSmartRecruitersJobs and extractWorkableJobs *)

MaxPostings == 2    \* postings in one response

\* isEarlyCareerRole (adapters/types.ts).
isEarlyCareerRole(title) ==
    LET normalized == toLowerCase(title)
    IN
       \/ Contains(normalized, <<"n", "e", "w", " ", "g", "r", "a", "d">>)
       \/ Contains(normalized, <<"n", "e", "w", " ", "g", "r", "a", "d", "u", "a", "t", "e">>)
       \/ Contains(normalized, <<"u", "n", "i", "v", "e", "r", "s", "i", "t", "y">>)
       \/ Contains(normalized, <<"c", "o", "l", "l", "e", "g", "e">>)
       \/ Contains(normalized, <<"e", "n", "t", "r", "y", " ", "l", "e", "v", "e", "l">>)
       \/ Contains(normalized, <<"i", "n", "t", "e", "r", "n">>)
       \/ Contains(normalized, <<"i", "n", "t", "e", "r", "n", "s", "h", "i", "p">>)
       \/ Contains(normalized, <<"c", "o", "-", "o", "p">>)
       \/ Contains(normalized, <<"j", "u", "n", "i", "o", "r">>)
       \/ Contains(normalized, <<"a", "s", "s", "o", "c", "i", "a", "t", "e">>)
       \/ Contains(normalized, <<"g", "r", "a", "d", "u", "a", "t", "e", " ", "p", "r", "o", "g", "r", "a", "m">>)
       \/ Contains(normalized, <<"e", "a", "r", "l", "y", " ", "c", "a", "r", "e", "e", "r">>)

\* title.toLowerCase().includes('intern') ? 'internship' : 'new_grad', and
\* resolveJobType of the Workable adapter, which is the same test.
resolveJobType(title) ==
    IF Contains(toLowerCase(title), <<"i", "n", "t", "e", "r", "n">>) THEN "internship" ELSE "new_grad"

\* posting.name?.trim(): the name may be absent.
TrimmedTitle(posting) == IF posting.name = <<>> THEN <<>> ELSE trim(posting.name[1])

\* !value for a text that may be absent: absent and the empty text are falsy.
Falsy(text) == text = NullText \/ text = ""

\* posting.applyUrl || posting.postingUrl
ApplyOrPostingUrl(posting) ==
    IF Falsy(posting.applyUrl) THEN posting.postingUrl ELSE posting.applyUrl

NormalizedJob(title, url) ==
    [title |-> title, url |-> url, jobType |-> resolveJobType(title)]

\* The loop of extractSmartRecruitersJobs with the test of the url left out.
RECURSIVE extractSmartRecruitersJobsAnyUrl(_)
extractSmartRecruitersJobsAnyUrl(content) ==
    IF content = <<>> THEN <<>>
    ELSE LET posting == Head(content)
             title == TrimmedTitle(posting)
             rest == extractSmartRecruitersJobsAnyUrl(Tail(content))
         IN  IF title = <<>> \/ ~isEarlyCareerRole(title) THEN rest
             ELSE <<NormalizedJob(title, ApplyOrPostingUrl(posting))>> \o rest

\* extractSmartRecruitersJobs: the loop over response.content.
RECURSIVE extractSmartRecruitersJobs(_)
extractSmartRecruitersJobs(content) ==
    IF content = <<>> THEN <<>>
    ELSE LET posting == Head(content)
             title == TrimmedTitle(posting)
             url == ApplyOrPostingUrl(posting)
             rest == extractSmartRecruitersJobs(Tail(content))
         IN  IF title = <<>> \/ ~isEarlyCareerRole(title) THEN rest
             ELSE IF Falsy(url) THEN rest
             ELSE <<NormalizedJob(title, url)>> \o rest

\* The loop of extractWorkableJobs with the title taken as it came.
RECURSIVE extractWorkableJobsUntrimmed(_)
extractWorkableJobsUntrimmed(jobs) ==
    IF jobs = <<>> THEN <<>>
    ELSE LET job == Head(jobs)
             title == IF job.name = <<>> THEN <<>> ELSE job.name[1]
             rest == extractWorkableJobsUntrimmed(Tail(jobs))
         IN  IF title = <<>> \/ ~isEarlyCareerRole(title) THEN rest
             ELSE <<NormalizedJob(title, job.url)>> \o rest

\* extractWorkableJobs: the loop over response.jobs; the url is job.url as
\* it came.
RECURSIVE extractWorkableJobs(_)
extractWorkableJobs(jobs) ==
    IF jobs = <<>> THEN <<>>
    ELSE LET job == Head(jobs)
             title == TrimmedTitle(job)
             rest == extractWorkableJobs(Tail(jobs))
         IN  IF title = <<>> \/ ~isEarlyCareerRole(title) THEN rest
             ELSE <<NormalizedJob(title, job.url)>> \o rest

\* The postings of the responses: name is the title of either platform,
\* applyUrl and postingUrl are read by the SmartRecruiters adapter, url by
\* the Workable adapter.
PostingPool ==
    {
     [name |-> <<<<" ", "N", "e", "w", " ", "G", "r", "a", "d", " ">>>>, applyUrl |-> "a1", postingUrl |-> "p1", url |-> "w1"],
     [name |-> <<<<" ", "N", "e", "w", " ", "G", "r", "a", "d", " ">>>>, applyUrl |-> NullText, postingUrl |-> NullText, url |-> "w2"],
     [name |-> <<<<"I", "N", "T", "E", "R", "N">>>>, applyUrl |-> NullText, postingUrl |-> "p2", url |-> "w3"],
     [name |-> <<<<"I", "N", "T", "E", "R", "N">>>>, applyUrl |-> "", postingUrl |-> NullText, url |-> "w3"],
     [name |-> <<<<"I", "n", "t", "e", "r", "n", "a", "l">>>>, applyUrl |-> "", postingUrl |-> "p3", url |-> "w4"],
     [name |-> <<<<"P", "r", "i", "n", "c", "i", "p", "a", "l">>>>, applyUrl |-> "a4", postingUrl |-> "p4", url |-> "w5"],
     [name |-> <<<<>>>>, applyUrl |-> "a5", postingUrl |-> NullText, url |-> "w6"],
     [name |-> <<<<" ", " ">>>>, applyUrl |-> "a6", postingUrl |-> NullText, url |-> "w7"],
     [name |-> <<>>, applyUrl |-> "a7", postingUrl |-> NullText, url |-> "w8"],
     [name |-> <<<<"N", "e", "w", " ", "G", "r", "a", "d", "u", "a", "t", "e">>>>, applyUrl |-> "a8", postingUrl |-> NullText, url |-> "w9"],
     [name |-> <<<<"U", "n", "i", "v", "e", "r", "s", "i", "t", "y">>>>, applyUrl |-> "a9", postingUrl |-> NullText, url |-> "w10"],
     [name |-> <<<<"C", "o", "l", "l", "e", "g", "e">>>>, applyUrl |-> NullText, postingUrl |-> NullText, url |-> "w11"],
     [name |-> <<<<"E", "n", "t", "r", "y", " ", "L", "e", "v", "e", "l">>>>, applyUrl |-> "a10", postingUrl |-> NullText, url |-> "w12"],
     [name |-> <<<<"S", "u", "m", "m", "e", "r", " ", "I", "n", "t", "e", "r", "n", "s", "h", "i", "p">>>>, applyUrl |-> "a11", postingUrl |-> NullText, url |-> "w13"],
     [name |-> <<<<"C", "o", "-", "o", "p">>>>, applyUrl |-> "a12", postingUrl |-> NullText, url |-> "w14"],
     [name |-> <<<<"J", "u", "n", "i", "o", "r">>>>, applyUrl |-> "a13", postingUrl |-> NullText, url |-> NullText],
     [name |-> <<<<"A", "s", "s", "o", "c", "i", "a", "t", "e">>>>, applyUrl |-> "a14", postingUrl |-> NullText, url |-> "w16"],
     [name |-> <<<<"G", "r", "a", "d", "u", "a", "t", "e", " ", "P", "r", "o", "g", "r", "a", "m">>>>, applyUrl |-> "a15", postingUrl |-> NullText, url |-> "w17"],
     [name |-> <<<<"E", "a", "r", "l", "y", " ", "C", "a", "r", "e", "e", "r">>>>, applyUrl |-> "a16", postingUrl |-> NullText, url |-> "w18"]
    }

Responses == UNION {[1..n -> PostingPool] : n \in 0..MaxPostings}

AdapterInit ==
    /\ now = StartTime
    /\ configured = FALSE
    /\ catalog = "empty"
    /\ sponsors = {}
    /\ skipped = {}
    /\ Idle
    /\ scoreIn \in Responses
    /\ scoreOut = <<>>
    /\ filters = NoFilters
    /\ total = NullInt
    /\ NoCrawl

ExtractSmartRecruiters ==
    /\ pc = "idle"
    /\ pc' = "done"
    /\ op' = "smartrecruiters"
    /\ outcome' = "returned"
    /\ scoreOut' = extractSmartRecruitersJobs(scoreIn)
    /\ UNCHANGED <<env, sponsors, company, batch, groups, snapshot, groupIdx,
                   remoteCallsRemaining, sponsorRecord, landingClub, existing,
                   summaries, result, remoteCalls, skipped, searchEmbedding,
                   scoreIn, countVars, crawlVars>>

\* extractWorkableJobs awaits detailFetcher(job) for every job it keeps: with
\* a fetcher that rejects, the call rejects at the first such job.
ExtractWorkable(detailFetcher) ==
    /\ pc = "idle"
    /\ pc' = "done"
    /\ op' = "workable"
    /\ IF detailFetcher = "rejects" /\ extractWorkableJobs(scoreIn) # <<>>
       THEN outcome' = "thrown" /\ scoreOut' = <<>>
       ELSE outcome' = "returned" /\ scoreOut' = extractWorkableJobs(scoreIn)
    /\ UNCHANGED <<env, sponsors, company, batch, groups, snapshot, groupIdx,
                   remoteCallsRemaining, sponsorRecord, landingClub, existing,
                   summaries, result, remoteCalls, skipped, searchEmbedding,
                   scoreIn, countVars, crawlVars>>

AdapterNext ==
    \/ ExtractSmartRecruiters
    \/ \E detailFetcher \in {"none", "answers", "rejects"} : ExtractWorkable(detailFetcher)
    \/ Reset

AdapterSpec == AdapterInit /\ [][AdapterNext]_vars

\* The positions of the postings an adapter keeps.
KeptBy(adapter, response) ==
    {i \in 1..Len(response) :
        /\ TrimmedTitle(response[i]) # <<>>
        /\ isEarlyCareerRole(TrimmedTitle(response[i]))
        /\ adapter = "smartrecruiters" =>
              (~Falsy(response[i].applyUrl) \/ ~Falsy(response[i].postingUrl))}

\* The position of the k-th kept posting.
KthKept(kept, k) == CHOOSE i \in kept : Cardinality({j \in kept : j < i}) = k - 1

AdapterReturned == op \in {"smartrecruiters", "workable"} /\ pc = "done" /\ outcome = "returned"

\* C30: extractSmartRecruitersJobs and extractWorkableJobs return, in the
\* order of the input, exactly the postings whose trimmed title is an
\* early-career role (for SmartRecruiters only those with an apply or posting
\* url), each with jobType internship if its title contains intern, letter
\* case ignored, and new_grad otherwise.
C30_AdaptersKeepEarlyCareerRoles ==
    AdapterReturned =>
        LET kept == KeptBy(op, scoreIn)
        IN  /\ Len(scoreOut) = Cardinality(kept)
            /\ \A k \in 1..Len(scoreOut) :
                  LET posting == scoreIn[KthKept(kept, k)]
                      lowered == toLowerCase(scoreOut[k].title)
                  IN  /\ scoreOut[k].title = trim(posting.name[1])
                      /\ scoreOut[k].jobType =
                            (IF \E i \in 1..(Len(lowered) - 5) :
                                   SubSeq(lowered, i, i + 5) = <<"i", "n", "t", "e", "r", "n">>
                             THEN "internship" ELSE "new_grad")
                      /\ op = "smartrecruiters" =>
                            scoreOut[k].url \in {posting.applyUrl, posting.postingUrl}
                      /\ op = "workable" => scoreOut[k].url = posting.url

\* The SmartRecruiters adapter dropped a new-grad posting that has no url
\* and returned the internship after it, its title in capitals.
C30_Witness ==
    /\ AdapterReturned
    /\ op = "smartrecruiters"
    /\ Len(scoreIn) = 2
    /\ scoreIn[1].name = <<<<" ", "N", "e", "w", " ", "G", "r", "a", "d", " ">>>>
    /\ Falsy(scoreIn[1].applyUrl) /\ Falsy(scoreIn[1].postingUrl)
    /\ Len(scoreOut) = 1
    /\ scoreOut[1].title = <<"I", "N", "T", "E", "R", "N">>
    /\ scoreOut[1].jobType = "internship"

\* The Workable adapter kept a padded new-grad title, trimmed, and a job
\* without a url.
WorkableKeepsJobsWithoutUrl ==
    /\ AdapterReturned
    /\ op = "workable"
    /\ Len(scoreOut) = 2
    /\ scoreOut[1].title = <<"N", "e", "w", " ", "G", "r", "a", "d">>
    /\ scoreOut[1].jobType = "new_grad"
    /\ scoreOut[2].url = NullText

====
